---- MODULE Spec2Model ----
(***************************************************************************)
(* AstroNews hybrid ranking engine (src/app/hybrid_search.py) with its     *)
(* lexical scorer (src/app/text_utils.py), its recency scorer              *)
(* (src/app/local_search.py) and the ingestion that feeds it               *)
(* (src/app/ingest_rss.py, src/app/build_embeddings.py).                   *)
(*                                                                         *)
(* Representation of the Python values:                                    *)
(*   - a text (query, title, summary) is a sequence of one-character       *)
(*     strings over Latin-1 (U+0000..U+00FF); a token, a stopword, a       *)
(*     synonym is a TLA+ string;                                           *)
(*   - a lexical score is an integer number of tenths (3.0 is 30), and     *)
(*     next to it the sequence of the addends in the order in which the    *)
(*     code adds them, from which the binary64 sum is computed;            *)
(*   - a raw semantic score is an integer number of SemUnit = 0.5e-9, so   *)
(*     that the normalizer's floor 1e-9 is EPS = 2 units;                  *)
(*   - a binary64 value is [m, e], the number m * 2^e, and the operations  *)
(*     on such values round as IEEE 754 does (math.exp is taken as         *)
(*     correctly rounded);                                                 *)
(*   - a datetime is [y, m, d, h, mi, s, us] in UTC, an instant is         *)
(*     <<hours since 0001-01-01T00:00Z, seconds, microseconds>>, and an    *)
(*     age (a timedelta >= 0) is <<hours, seconds, microseconds>>;         *)
(*   - a recency is <<r, age, x, n>>: x is the binary64 value              *)
(*     exp(-age_days / tau_days) for that age, r its rounding to           *)
(*     thousandths and n its floor in units of 1e-9;                       *)
(*   - a normalized score is a fraction <<numerator, denominator>>;        *)
(*   - a final score is <<numerator, denominator, t>>: the fraction is the *)
(*     blend computed exactly from the fractions and the recency in        *)
(*     thousandths, and t holds what the binary64 score is computed from   *)
(*     (see ScoreLeq, which orders two scores as binary64 values).         *)
(***************************************************************************)
EXTENDS Integers, Sequences, FiniteSets, TLC

VARIABLES meta, raw_items, call, probe, api, feed

vars == <<meta, raw_items, call, probe, api, feed>>

Max2(a, b) == IF a >= b THEN a ELSE b

Min2(a, b) == IF a <= b THEN a ELSE b

\* a function over 1..n as the sequence of its n values
AsSeq(f) == f \o <<>>

(***************************************************************************)
(* Characters and texts                                                    *)
(***************************************************************************)
\* the upper-case letters of Latin-1 (the characters a TLA+ string can hold)
UpperChars ==
    <<"A","B","C","D","E","F","G","H","I","J","K","L","M",
      "N","O","P","Q","R","S","T","U","V","W","X","Y","Z",
      "À","Á","Â","Ã","Ä","Å","Æ","Ç","È","É","Ê","Ë","Ì",
      "Í","Î","Ï","Ð","Ñ","Ò","Ó","Ô","Õ","Ö","Ø","Ù","Ú",
      "Û","Ü","Ý","Þ">>

\* their lower-case forms, position by position; the first 26 are a-z
LowerChars ==
    <<"a","b","c","d","e","f","g","h","i","j","k","l","m",
      "n","o","p","q","r","s","t","u","v","w","x","y","z",
      "à","á","â","ã","ä","å","æ","ç","è","é","ê","ë","ì",
      "í","î","ï","ð","ñ","ò","ó","ô","õ","ö","ø","ù","ú",
      "û","ü","ý","þ">>

DigitChars == {"0","1","2","3","4","5","6","7","8","9"}

\* the Latin-1 characters that str.isalnum() accepts and that are neither
\* ASCII nor part of an upper/lower pair
UncasedWordChars == {"ª","²","³","µ","¹","º","¼","½","¾","ß","ÿ"}

IsUpper(c) == \E i \in DOMAIN UpperChars : UpperChars[i] = c

\* the range a-z
IsLower(c) == \E i \in 1..26 : LowerChars[i] = c

\* str.lower() on one character
LowerChar(c) ==
    IF IsUpper(c)
    THEN LowerChars[CHOOSE i \in DOMAIN UpperChars : UpperChars[i] = c]
    ELSE c

\* (s or "").lower()
LowerText(s) == [i \in 1..Len(s) |-> LowerChar(s[i])]

\* the character class [a-z0-9] of WORD_RE
IsAlnumLower(c) == IsLower(c) \/ c \in DigitChars

\* the character class \w of a str pattern: the alphanumeric characters of
\* Unicode and the underscore
IsWordChar(c) ==
    \/ IsUpper(c)
    \/ \E i \in DOMAIN LowerChars : LowerChars[i] = c
    \/ c \in DigitChars
    \/ c \in UncasedWordChars
    \/ c = "_"

RECURSIVE Str(_)
\* the string spelled by a sequence of characters
Str(s) == IF s = <<>> THEN "" ELSE s[1] \o Str(Tail(s))

\* Python's `needle in haystack` for a string needle and a text haystack
Contains(haystack, needle) ==
    \E i \in 1..(Len(haystack) - Len(needle) + 1) :
        Str(SubSeq(haystack, i, i + Len(needle) - 1)) = needle

STOPWORDS ==
    {"the","a","an","to","of","and","in","on","for","at","from","by","with","as",
     "is","are","was","were","be","been","being","that","this","these","those",
     "it","its","into","over","about","than","up","down","out","off","or","not"}

RECURSIVE FindAllFrom(_, _, _)
\* WORD_RE.findall: the maximal runs of [a-z0-9], left to right
FindAllFrom(s, i, cur) ==
    IF i > Len(s)
    THEN (IF cur = "" THEN <<>> ELSE <<cur>>)
    ELSE IF IsAlnumLower(s[i])
         THEN FindAllFrom(s, i + 1, cur \o s[i])
         ELSE (IF cur = "" THEN <<>> ELSE <<cur>>) \o FindAllFrom(s, i + 1, "")

WORD_RE_findall(s) == FindAllFrom(s, 1, "")

NotStopword(w) == w \notin STOPWORDS

tokenize(s) == SelectSeq(WORD_RE_findall(LowerText(s)), NotStopword)

\* whether position p of text t (1-based) holds a \w character
WordCharAt(t, p) == p >= 1 /\ p <= Len(t) /\ IsWordChar(t[p])

\* \b between positions p and p+1 of t
WordBoundary(t, p) == WordCharAt(t, p) # WordCharAt(t, p + 1)

\* word.lower() for a word given as a string
LowerWord(word) == Str([i \in 1..Len(word) |-> LowerChar(SubSeq(word, i, i))])

\* a mutant of contains_word: plain substring search, the two \b dropped
contains_word_NoBoundary(text, word) == Contains(LowerText(text), LowerWord(word))

\* re.search(rf"\b{re.escape(word.lower())}\b", (text or "").lower())
contains_word(text, word) ==
    LET t == LowerText(text)
        w == LowerWord(word)
    IN \E i \in 1..(Len(t) - Len(w) + 1) :
          /\ Str(SubSeq(t, i, i + Len(w) - 1)) = w
          /\ WordBoundary(t, i - 1)
          /\ WordBoundary(t, i + Len(w) - 1)

\* list.count
Count(seq, x) == Cardinality({i \in 1..Len(seq) : seq[i] = x})

RECURSIVE SumSeq(_)
SumSeq(seq) == IF seq = <<>> THEN 0 ELSE seq[1] + SumSeq(Tail(seq))

\* a mutant of keyword_hits: each distinct query token is counted once
keyword_hits_DistinctQuery(query, title, summary) ==
    LET qs == {tokenize(query)[i] : i \in 1..Len(tokenize(query))}
        tt == tokenize(title)
        ts == tokenize(summary)
    IN <<Cardinality({i \in 1..Len(tt) : tt[i] \in qs}),
         Cardinality({i \in 1..Len(ts) : ts[i] \in qs})>>

\* <<title_hits, sum_hits>>
keyword_hits(query, title, summary) ==
    LET q_tokens == tokenize(query)
        t_title  == tokenize(title)
        t_sum    == tokenize(summary)
    IN <<SumSeq([i \in 1..Len(q_tokens) |-> Count(t_title, q_tokens[i])]),
         SumSeq([i \in 1..Len(q_tokens) |-> Count(t_sum, q_tokens[i])])>>

SynonymKeys ==
    {"cargo","station","resupply","crs","dragon","iss","moon","lunar","artemis"}

SYNONYMS ==
    [w \in SynonymKeys |->
        CASE w = "cargo"    -> <<"resupply","supplies","crs","dragon","station","iss">>
          [] w = "station"  -> <<"iss","dragon","crs","resupply","cargo",
                                 "international space station">>
          [] w = "resupply" -> <<"crs","dragon","cargo","iss","station">>
          [] w = "crs"      -> <<"resupply","dragon","cargo","iss","station">>
          [] w = "dragon"   -> <<"crs","resupply","station","iss","cargo">>
          [] w = "iss"      -> <<"station","dragon","crs","resupply","cargo">>
          [] w = "moon"     -> <<"lunar","artemis">>
          [] w = "lunar"    -> <<"moon","artemis">>
          [] w = "artemis"  -> <<"moon","lunar">>]

\* SYNONYMS.get(tok, [])
SynonymsOf(tok) == IF tok \in SynonymKeys THEN SYNONYMS[tok] ELSE <<>>

MUST_TERMS == {"cargo","resupply","dragon","crs","station","iss"}

RECURSIVE JoinSpace(_)
\* " ".join(tokens)
JoinSpace(tokens) ==
    IF tokens = <<>> THEN ""
    ELSE IF Len(tokens) = 1 THEN tokens[1]
    ELSE tokens[1] \o " " \o JoinSpace(Tail(tokens))

\* the term-frequency part of enhanced_keyword_score, in tenths
BaseScore(query, title, summary) ==
    LET h == keyword_hits(query, title, summary) IN 30 * h[1] + 10 * h[2]

\* a mutant of PhraseBonus: the test that q_clean is not empty is dropped
PhraseBonus_NoEmptyGuard(query, title, summary) ==
    LET q_clean == JoinSpace(tokenize(query)) IN
    (IF Contains(LowerText(title), q_clean) THEN 20 ELSE 0)
    + (IF Contains(LowerText(summary), q_clean) THEN 7 ELSE 0)

\* the exact-phrase part, in tenths
PhraseBonus(query, title, summary) ==
    LET q_clean == JoinSpace(tokenize(query)) IN
    (IF q_clean # "" /\ Contains(LowerText(title), q_clean) THEN 20 ELSE 0)
    + (IF q_clean # "" /\ Contains(LowerText(summary), q_clean) THEN 7 ELSE 0)

\* a mutant of SynonymBonus: `if` for `elif`, a synonym found in the title
\* and in the summary counts for both
SynonymBonus_BothFields(query, title, summary) ==
    LET q_tokens == tokenize(query)
        t_low == LowerText(title)
        s_low == LowerText(summary)
        One(syn) == (IF contains_word(t_low, syn) THEN 10 ELSE 0)
                    + (IF contains_word(s_low, syn) THEN 3 ELSE 0)
        OfToken(tok) ==
            SumSeq([j \in 1..Len(SynonymsOf(tok)) |-> One(SynonymsOf(tok)[j])])
    IN SumSeq([i \in 1..Len(q_tokens) |-> OfToken(q_tokens[i])])

\* the synonym part, in tenths
SynonymBonus(query, title, summary) ==
    LET q_tokens == tokenize(query)
        t_low == LowerText(title)
        s_low == LowerText(summary)
        One(syn) == IF contains_word(t_low, syn) THEN 10
                    ELSE IF contains_word(s_low, syn) THEN 3 ELSE 0
        OfToken(tok) ==
            SumSeq([j \in 1..Len(SynonymsOf(tok)) |-> One(SynonymsOf(tok)[j])])
    IN SumSeq([i \in 1..Len(q_tokens) |-> OfToken(q_tokens[i])])

\* in tenths
enhanced_keyword_score(query, title, summary) ==
    BaseScore(query, title, summary)
    + PhraseBonus(query, title, summary)
    + SynonymBonus(query, title, summary)

RECURSIVE Flatten(_)
\* the concatenation of a sequence of sequences
Flatten(seqs) == IF seqs = <<>> THEN <<>> ELSE seqs[1] \o Flatten(Tail(seqs))

\* what enhanced_keyword_score adds up, in tenths and in the order of the
\* code: 3.0 * t_hits + 1.0 * s_hits, then 2.0 and 0.7 of the phrase, then
\* 1.0 or 0.3 for each synonym found, token by token
KeywordAddends(query, title, summary) ==
    LET q_tokens == tokenize(query)
        q_clean  == JoinSpace(q_tokens)
        t_low    == LowerText(title)
        s_low    == LowerText(summary)
        One(syn) == IF contains_word(t_low, syn) THEN <<10>>
                    ELSE IF contains_word(s_low, syn) THEN <<3>> ELSE <<>>
        OfToken(tok) ==
            Flatten([j \in 1..Len(SynonymsOf(tok)) |-> One(SynonymsOf(tok)[j])])
    IN <<BaseScore(query, title, summary)>>
       \o (IF q_clean # "" /\ Contains(t_low, q_clean) THEN <<20>> ELSE <<>>)
       \o (IF q_clean # "" /\ Contains(s_low, q_clean) THEN <<7>> ELSE <<>>)
       \o Flatten([i \in 1..Len(q_tokens) |-> OfToken(q_tokens[i])])

must_have_gate(query, title, summary) ==
    LET q_tokens == {tokenize(query)[i] : i \in 1..Len(tokenize(query))} IN
    IF MUST_TERMS \cap q_tokens # {}
    THEN \E t \in MUST_TERMS : contains_word(title, t) \/ contains_word(summary, t)
    ELSE TRUE

(***************************************************************************)
(* The texts of the model                                                  *)
(***************************************************************************)
EmptyText == <<>>

Q_cargo_station ==
    \* "cargo to the station"
    <<"c","a","r","g","o"," ","t","o"," ","t","h","e"," ","s","t","a","t","i","o","n">>

Q_moon_moon ==
    \* "moon moon"
    <<"m","o","o","n"," ","m","o","o","n">>

Q_cargo_moon ==
    \* "Cargo moon"
    <<"C","a","r","g","o"," ","m","o","o","n">>

Q_the ==
    \* "the"
    <<"t","h","e">>

Q_artemis ==
    \* "Artemis"
    <<"A","r","t","e","m","i","s">>

Q_punct ==
    \* "?!"
    <<"?","!">>

T_dragon ==
    \* "Dragon delivers cargo to the ISS"
    <<"D","r","a","g","o","n"," ","d","e","l","i","v","e","r","s"," ","c","a","r","g","o"," ","t","o"," ","t","h","e"," ","I","S","S">>

T_artemis ==
    \* "Artemis moon mission update"
    <<"A","r","t","e","m","i","s"," ","m","o","o","n"," ","m","i","s","s","i","o","n"," ","u","p","d","a","t","e">>

T_crs ==
    \* "CRS-30 update"
    <<"C","R","S","-","3","0"," ","u","p","d","a","t","e">>

T_stations ==
    \* "Space stations of the future"
    <<"S","p","a","c","e"," ","s","t","a","t","i","o","n","s"," ","o","f"," ","t","h","e"," ","f","u","t","u","r","e">>

T_cargo_station ==
    \* "A cargo station, a moon"
    <<"A"," ","c","a","r","g","o"," ","s","t","a","t","i","o","n",","," ","a"," ","m","o","o","n">>

T_phrase ==
    \* "Cargo to the Station"
    <<"C","a","r","g","o"," ","t","o"," ","t","h","e"," ","S","t","a","t","i","o","n">>

T_latin ==
    \* "ISSé Équipage"
    <<"I","S","S","é"," ","É","q","u","i","p","a","g","e">>

S_arrives ==
    \* "Cargo to the station arrives"
    <<"C","a","r","g","o"," ","t","o"," ","t","h","e"," ","s","t","a","t","i","o","n"," ","a","r","r","i","v","e","s">>

S_moon_rocks ==
    \* "Moon rocks and lunar moon dust"
    <<"M","o","o","n"," ","r","o","c","k","s"," ","a","n","d"," ","l","u","n","a","r"," ","m","o","o","n"," ","d","u","s","t">>

S_moon ==
    \* "moon"
    <<"m","o","o","n">>

S_cargo_bay ==
    \* "The cargo_bay was sealed"
    <<"T","h","e"," ","c","a","r","g","o","_","b","a","y"," ","w","a","s"," ","s","e","a","l","e","d">>

S_iss_full ==
    \* "International Space Station crew"
    <<"I","n","t","e","r","n","a","t","i","o","n","a","l"," ","S","p","a","c","e"," ","S","t","a","t","i","o","n"," ","c","r","e","w">>

Queries == {Q_cargo_station, Q_moon_moon, Q_cargo_moon, Q_the, Q_artemis,
            Q_punct, EmptyText}

Titles == {T_dragon, T_artemis, T_crs, T_stations, T_cargo_station, T_phrase,
           T_latin, EmptyText}

Summaries == {S_arrives, S_moon_rocks, S_moon, S_cargo_bay, S_iss_full,
              EmptyText}

\* the queries, titles and summaries that reach a search
SearchQueries == {Q_cargo_station, Q_cargo_moon, Q_the}

CorpusTitles == {T_dragon, T_artemis, T_crs, T_stations}

CorpusSummaries == {S_arrives, S_moon_rocks, S_moon, EmptyText}

\* enhanced_keyword_score and must_have_gate tabulated over the texts that
\* reach a search, so that a search looks a score up instead of scanning the
\* characters again; an entry is the operator's own value (the `@@ <<>>`
\* makes the model checker build the table once)
LexicalMemo ==
    [x \in SearchQueries \X CorpusTitles \X CorpusSummaries |->
        [score   |-> enhanced_keyword_score(x[1], x[2], x[3]),
         addends |-> KeywordAddends(x[1], x[2], x[3]),
         gate    |-> must_have_gate(x[1], x[2], x[3])]] @@ <<>>

\* the entry of the table for three texts, or the operators' values for
\* texts the table does not hold
Lexical(query, title, summary) ==
    IF <<query, title, summary>> \in DOMAIN LexicalMemo
    THEN LexicalMemo[<<query, title, summary>>]
    ELSE [score   |-> enhanced_keyword_score(query, title, summary),
          addends |-> KeywordAddends(query, title, summary),
          gate    |-> must_have_gate(query, title, summary)]

\* enhanced_keyword_score(query, title, summary) as hybrid_search calls it
KeywordRaw(query, title, summary) == Lexical(query, title, summary).score

\* the addends of that score
KeywordParts(query, title, summary) == Lexical(query, title, summary).addends

\* must_have_gate(query, title, summary) as hybrid_search calls it
GatePasses(query, title, summary) == Lexical(query, title, summary).gate

(***************************************************************************)
(* binary64 arithmetic.  TLC's integers have 32 bits, so a natural number  *)
(* of any size is a sequence of limbs in base 2^15, lowest limb first and  *)
(* no zero limb at the top (zero is the empty sequence).                   *)
(***************************************************************************)
LIMB == 32768
LIMB_BITS == 15

\* the place of the top limb that is not zero, 0 when every limb is zero
TopLimb(a) ==
    IF \A i \in 1..Len(a) : a[i] = 0 THEN 0
    ELSE CHOOSE i \in 1..Len(a) : a[i] # 0 /\ \A j \in (i + 1)..Len(a) : a[j] = 0

BigTrim(a) == SubSeq(a, 1, TopLimb(a))

RECURSIVE BigOfNat(_)
BigOfNat(n) == IF n = 0 THEN <<>> ELSE <<n % LIMB>> \o BigOfNat(n \div LIMB)

LimbAt(a, i) == IF i <= Len(a) THEN a[i] ELSE 0

LimbSum(a, b, i) == LimbAt(a, i) + LimbAt(b, i)

\* a carry enters limb i of a + b: a limb below it overflows and every limb
\* between the two passes the carry on
CarryInto(a, b, i) ==
    \E j \in 1..(i - 1) :
        /\ LimbSum(a, b, j) >= LIMB
        /\ \A k \in (j + 1)..(i - 1) : LimbSum(a, b, k) = LIMB - 1

BigAdd(a, b) ==
    IF Len(a) = 0 THEN b
    ELSE IF Len(b) = 0 THEN a
    ELSE BigTrim(AsSeq([i \in 1..(Max2(Len(a), Len(b)) + 1) |->
                           (LimbSum(a, b, i)
                            + IF CarryInto(a, b, i) THEN 1 ELSE 0) % LIMB]))

\* a borrow is taken from limb i of a - b
BorrowInto(a, b, i) ==
    \E j \in 1..(i - 1) :
        /\ a[j] < LimbAt(b, j)
        /\ \A k \in (j + 1)..(i - 1) : a[k] = LimbAt(b, k)

\* a - b for a >= b
BigSub(a, b) ==
    IF Len(b) = 0 THEN a
    ELSE BigTrim(AsSeq([i \in 1..Len(a) |->
                           (a[i] - LimbAt(b, i) + LIMB
                            - IF BorrowInto(a, b, i) THEN 1 ELSE 0) % LIMB]))

BigLess(a, b) ==
    IF Len(a) # Len(b) THEN Len(a) < Len(b)
    ELSE \E i \in 1..Len(a) :
             a[i] < b[i] /\ \A k \in (i + 1)..Len(a) : a[k] = b[k]

\* the number whose limb k is c[k], any c[k] below 2^30, c not empty
BigOfColumns(c) ==
    BigAdd(AsSeq([k \in 1..Len(c) |-> c[k] % LIMB]),
           <<0>> \o [k \in 1..Len(c) |-> c[k] \div LIMB])

\* a * d for 0 <= d <= 2^15
BigMulLimb(a, d) ==
    IF Len(a) = 0 \/ d = 0 THEN <<>>
    ELSE BigOfColumns(AsSeq([i \in 1..Len(a) |-> a[i] * d]))

RECURSIVE SumTo(_, _)
\* f[1] + ... + f[n]
SumTo(f, n) == IF n = 0 THEN 0 ELSE f[n] + SumTo(f, n - 1)

\* the products a[i] * b[j] with i + j = k + 1, halved: their low limbs
\* (high = 0) or their high limbs (high = 1), added up
ColumnSum(a, b, k, high) ==
    SumTo(AsSeq([i \in 1..Len(a) |->
                    IF (k + 1 - i) \in 1..Len(b)
                    THEN IF high = 0 THEN (a[i] * b[k + 1 - i]) % LIMB
                         ELSE (a[i] * b[k + 1 - i]) \div LIMB
                    ELSE 0]),
          Len(a))

BigMul(a, b) ==
    IF Len(a) = 0 \/ Len(b) = 0 THEN <<>>
    ELSE BigOfColumns(AsSeq([k \in 1..(Len(a) + Len(b)) |->
                                ColumnSum(a, b, k, 0)
                                + ColumnSum(a, b, k - 1, 1)]))

BigPow2(s) == [i \in 1..(s \div LIMB_BITS) |-> 0] \o <<2 ^ (s % LIMB_BITS)>>

\* the number of bits of n < 2^15
SmallBits(n) ==
    CHOOSE k \in 0..LIMB_BITS : n < 2 ^ k /\ (k = 0 \/ n >= 2 ^ (k - 1))

BitLen(a) ==
    IF Len(a) = 0 THEN 0 ELSE LIMB_BITS * (Len(a) - 1) + SmallBits(a[Len(a)])

BigIsOdd(a) == Len(a) > 0 /\ a[1] % 2 = 1

RECURSIVE NatOfBig(_)
\* the number a sequence of limbs stands for (below 2^31)
NatOfBig(a) == IF Len(a) = 0 THEN 0 ELSE a[1] + LIMB * NatOfBig(Tail(a))

\* floor(r / LIMB^(Len(d) - 1)) for r < d * LIMB
TopAsSeq(r, d) == LimbAt(r, Len(d)) + LIMB * LimbAt(r, Len(d) + 1)

\* floor(r / d) for r < d * LIMB and the top limb of d at 2^14 or above:
\* it lies between the quotients of the top limbs of r by the top limb of
\* d, taken one too large and as it is
QuotientLimb(r, d) ==
    CHOOSE t \in (TopAsSeq(r, d) \div (d[Len(d)] + 1))
                 ..Min2(LIMB - 1, TopAsSeq(r, d) \div d[Len(d)]) :
        ~BigLess(r, BigMulLimb(d, t)) /\ BigLess(r, BigMulLimb(d, t + 1))

\* one step of the long division by d: limb i of the dividend has been
\* brought down into the remainder r, t is the next limb of the quotient
BigDivModLimb(d, i, q, r, t) ==
    <<i - 1, BigTrim(<<t>> \o q), BigSub(r, BigMulLimb(d, t))>>

BigDivModStep(d, i, q, r) == BigDivModLimb(d, i, q, r, QuotientLimb(r, d))

RECURSIVE BigDivModAt(_, _, _)
\* the long division of n by d from st = <<i, q, r>> on: the limbs above
\* i of n divided by d give the quotient q and the remainder r
BigDivModAt(n, d, st) ==
    IF st[1] = 0 THEN <<st[2], st[3]>>
    ELSE BigDivModAt(n, d, BigDivModStep(d, st[1], st[2],
                                         BigTrim(<<n[st[1]]>> \o st[3])))

\* the factor, a power of two, that brings the top limb of d to 2^14 or
\* above
NormFactor(d) == 2 ^ (LIMB_BITS - SmallBits(d[Len(d)]))

\* r / f for a multiple r of the power of two f
BigDivExact(r, f) ==
    IF Len(r) = 0 THEN r ELSE Tail(BigMulLimb(r, LIMB \div f))

BigDivModScaled(n, d, f) ==
    BigDivModAt(BigMulLimb(n, f), BigMulLimb(d, f),
                <<Len(BigMulLimb(n, f)), <<>>, <<>>>>)

BigDivModBy(qr, f) == <<qr[1], BigDivExact(qr[2], f)>>

\* <<floor(n / d), n mod d>> for d > 0: n and d scaled by the same factor
\* have the same quotient, and the remainder scaled
BigDivMod(n, d) ==
    IF BigLess(n, d) THEN <<(<<>>), n>>
    ELSE BigDivModBy(BigDivModScaled(n, d, NormFactor(d)), NormFactor(d))

(***************************************************************************)
(* A binary64 value >= 0 is [m, e], the number m * 2^e, with 2^52 <= m <   *)
(* 2^53, or with e = -1074 and m < 2^52 (subnormal, and zero).  Every      *)
(* operation rounds the exact result to nearest, ties to even.             *)
(***************************************************************************)
F_DIGITS == 53
F_EMIN == -1074
F_ZERO == [m |-> <<>>, e |-> F_EMIN]

F_ONE == [m |-> BigPow2(F_DIGITS - 1), e |-> 1 - F_DIGITS]

\* q * 2^e for q <= 2^53
FCarry(q, e) ==
    IF q = BigPow2(F_DIGITS)
    THEN [m |-> BigPow2(F_DIGITS - 1), e |-> e + 1]
    ELSE [m |-> q, e |-> e]

\* the quotient qr[1], one more when the remainder qr[2] is above half, or
\* is half with the quotient odd
FNearest(qr, half) ==
    IF BigLess(half, qr[2]) \/ (qr[2] = half /\ BigIsOdd(qr[1]))
    THEN BigAdd(qr[1], <<1>>)
    ELSE qr[1]

\* big * 2^e with the s lowest bits of big rounded away
FRoundBy(big, e, s) ==
    IF s <= 0 THEN [m |-> BigMul(big, BigPow2(0 - s)), e |-> e + s]
    ELSE FCarry(FNearest(BigDivMod(big, BigPow2(s)), BigPow2(s - 1)), e + s)

\* the binary64 nearest to big * 2^e
FRound(big, e) ==
    IF Len(big) = 0 THEN F_ZERO
    ELSE FRoundBy(big, e, Max2(BitLen(big) - F_DIGITS, F_EMIN - e))

\* twice the quotient dm[1], plus one when the remainder dm[2] is not zero
FSticky(dm) ==
    BigAdd(BigAdd(dm[1], dm[1]), IF Len(dm[2]) = 0 THEN <<>> ELSE <<1>>)

FRatioBy(num, den, e, k) ==
    FRound(FSticky(BigDivMod(BigMul(num, BigPow2(k)), den)), e - k - 1)

\* the binary64 nearest to (num / den) * 2^e: the quotient to 56 bits and
\* more, with one more bit that says whether anything is left
FRatio(num, den, e) ==
    IF Len(num) = 0 THEN F_ZERO
    ELSE FRatioBy(num, den, e, Max2(0, F_DIGITS + 3 + BitLen(den) - BitLen(num)))

FOfNat(n) == FRound(BigOfNat(n), 0)

\* a decimal literal num/den of the source
FLiteral(num, den) == FRatio(BigOfNat(num), BigOfNat(den), 0)

FDiv(x, y) == FRatio(x.m, y.m, x.e - y.e)

FMul(x, y) ==
    IF Len(x.m) = 0 \/ Len(y.m) = 0 THEN F_ZERO
    ELSE FRound(BigMul(x.m, y.m), x.e + y.e)

\* a term more than F_GUARD binary orders below the other counts as one
\* unit F_GUARD orders below it: it moves the rounding off a tie and
\* nothing else
F_GUARD == 60

\* hi + lo for hi.e >= lo.e, both positive
FAddOrdered(hi, lo) ==
    FRound(BigAdd(BigMul(hi.m, BigPow2(Min2(hi.e - lo.e, F_GUARD))),
                  IF hi.e - lo.e > F_GUARD THEN <<1>> ELSE lo.m),
           IF hi.e - lo.e > F_GUARD THEN hi.e - F_GUARD ELSE lo.e)

FAdd(x, y) ==
    IF Len(x.m) = 0 THEN y
    ELSE IF Len(y.m) = 0 THEN x
    ELSE FAddOrdered(IF x.e >= y.e THEN x ELSE y, IF x.e >= y.e THEN y ELSE x)

\* x - y for x >= y
FSub(x, y) ==
    IF Len(y.m) = 0 THEN x
    ELSE FRound(BigSub(BigMul(x.m, BigPow2(Min2(x.e - y.e, F_GUARD))),
                       IF x.e - y.e > F_GUARD THEN <<1>> ELSE y.m),
                IF x.e - y.e > F_GUARD THEN x.e - F_GUARD ELSE y.e)

FLeq(x, y) == x.e < y.e \/ (x.e = y.e /\ ~BigLess(y.m, x.m))

FMax(x, y) == IF FLeq(x, y) THEN y ELSE x

RECURSIVE FSumTo(_, _)
FSumTo(xs, n) == IF n = 1 THEN xs[1] ELSE FAdd(FSumTo(xs, n - 1), xs[n])

\* xs[1] + xs[2] + ... from left to right, xs not empty
FSum(xs) == FSumTo(xs, Len(xs))

\* floor(log2 x) of a binary64 value x > 0
FExponent(x) == x.e + BitLen(x.m) - 1

(***************************************************************************)
(* math.exp(-x), x >= 0, rounded correctly: -x = -k ln 2 - r with          *)
(* 0 <= r < ln 2, the series of exp(-r) in units of 2^-75, and the result  *)
(* sum * 2^(-75 - k).                                                      *)
(***************************************************************************)
EXP_LIMBS == 5
EXP_BITS == EXP_LIMBS * LIMB_BITS
\* floor(ln 2 * 2^75)
LN2 == <<24143, 30618, 31289, 1533, 22713>>
EXP_MAX_BITS == 11

\* the next term of the series: term * r / n, in units of 2^-75
ExpTerm(prod, n) ==
    IF Len(prod) <= EXP_LIMBS THEN <<>>
    ELSE BigDivMod(SubSeq(prod, EXP_LIMBS + 1, Len(prod)), <<n>>)[1]

\* the series after the term `next` of number n, which is added to the sum
\* when n is even and subtracted from it when n is odd
ExpSeriesStep(n, sum, next) ==
    <<n + 1, next,
      IF Len(next) = 0 THEN sum
      ELSE IF n % 2 = 0 THEN BigAdd(sum, next) ELSE BigSub(sum, next)>>

RECURSIVE ExpSeries(_, _)
\* 1 - r + r^2/2 - ... from st = <<n, term, sum>> on: term is the last
\* term added, n the number of the next one; it ends at a term of zero
ExpSeries(r, st) ==
    IF Len(st[2]) = 0 THEN st[3]
    ELSE ExpSeries(r, ExpSeriesStep(st[1], st[3],
                                    ExpTerm(BigMul(st[2], r), st[1])))

\* x in units of 2^-75
ExpFixed(x) ==
    IF x.e + EXP_BITS >= 0 THEN BigMul(x.m, BigPow2(x.e + EXP_BITS))
    ELSE BigDivMod(x.m, BigPow2(0 - x.e - EXP_BITS))[1]

\* exp(-r) * 2^(-k) for kr = <<k, r>>
FExpReduced(kr) ==
    FRound(ExpSeries(kr[2], <<1, BigPow2(EXP_BITS), BigPow2(EXP_BITS)>>),
           0 - EXP_BITS - LimbAt(kr[1], 1))

FExpNeg(x) ==
    IF Len(x.m) = 0 THEN F_ONE
    ELSE IF x.e + F_DIGITS > EXP_MAX_BITS THEN F_ZERO
    ELSE FExpReduced(BigDivMod(ExpFixed(x), LN2))

\* the least exponent of a value whose billionths are counted: a value
\* below 2^-40 has none
NANO_MIN_EXP == -93

\* floor(x * 10^9) for 0 <= x <= 1
FloorNano(x) ==
    IF x.e < NANO_MIN_EXP THEN 0
    ELSE NatOfBig(BigDivMod(BigMul(x.m, BigOfNat(1000000000)),
                            BigPow2(0 - x.e))[1])

(***************************************************************************)
(* Datetimes, instants and timestamps                                      *)
(*                                                                         *)
(* A published_at value read from meta.jsonl, or a date of a feed entry,   *)
(* is [kind, y, m, d, h, mi, s, us, tz, off]: kind "None" is a JSON null   *)
(* (a missing key), "empty" the empty string, "garbage" a string the       *)
(* parser rejects, "iso" a date string with the fields y .. us and the     *)
(* zone tz: "naive" (no suffix), "Z", or "offset" with off hours east.     *)
(***************************************************************************)
IsLeap(y) == y % 4 = 0 /\ (y % 100 # 0 \/ y % 400 = 0)

DaysBeforeYear(y) ==
    365 * (y - 1) + ((y - 1) \div 4) - ((y - 1) \div 100) + ((y - 1) \div 400)

DaysBeforeMonth(y, m) ==
    <<0, 31, 59, 90, 120, 151, 181, 212, 243, 273, 304, 334>>[m]
    + (IF m > 2 /\ IsLeap(y) THEN 1 ELSE 0)

\* whole hours from 0001-01-01T00:00 to the datetime dt
InstantHours(dt) ==
    (DaysBeforeYear(dt.y) + DaysBeforeMonth(dt.y, dt.m) + dt.d - 1) * 24 + dt.h

HOUR_SECONDS == 3600

SECOND_MICROS == 1000000

\* the instant of the datetime dt
Instant(dt) == <<InstantHours(dt), 60 * dt.mi + dt.s, dt.us>>

\* a <= b for two instants, and for two ages
InstantLeq(a, b) ==
    \/ a[1] < b[1]
    \/ a[1] = b[1] /\ a[2] < b[2]
    \/ a[1] = b[1] /\ a[2] = b[2] /\ a[3] <= b[3]

\* the instant t + timedelta(hours=hours), hours of either sign
InstantShift(t, hours) == <<t[1] + hours, t[2], t[3]>>

\* the instant t + timedelta(microseconds=micros), micros >= 0
InstantLater(t, micros) ==
    LET us == t[3] + micros
        s  == t[2] + us \div SECOND_MICROS
    IN <<t[1] + s \div HOUR_SECONDS, s % HOUR_SECONDS, us % SECOND_MICROS>>

\* the year that holds the day `days` (days since 0001-01-01)
YearOfDays(days) ==
    CHOOSE y \in (days \div 366 + 1)..(days \div 365 + 1) :
        DaysBeforeYear(y) <= days /\ days < DaysBeforeYear(y + 1)

\* the datetime in UTC of an instant
DatetimeOf(t) ==
    LET days == t[1] \div 24
        y    == YearOfDays(days)
        doy  == days - DaysBeforeYear(y)
        m    == CHOOSE k \in 1..12 :
                    /\ DaysBeforeMonth(y, k) <= doy
                    /\ k = 12 \/ doy < DaysBeforeMonth(y, k + 1)
    IN [y |-> y, m |-> m, d |-> doy - DaysBeforeMonth(y, m) + 1,
        h |-> t[1] % 24, mi |-> t[2] \div 60, s |-> t[2] % 60, us |-> t[3]]

\* what datetime.now(timezone.utc) reads `tick` microseconds after the
\* datetime `now`
Reading(now, tick) == DatetimeOf(InstantLater(Instant(now), tick))

\* datetime.now(timezone.utc).replace(year=2000), the clock reading `clock`
FallbackInstant(clock) == Instant([clock EXCEPT !.y = 2000])

\* the instant of a date string that parses; a string without zone is taken
\* to be in the zone `zone` hours east of UTC
ParsedInstant(ts, zone) ==
    IF ts.tz = "offset" THEN InstantShift(Instant(ts), 0 - ts.off)
    ELSE IF ts.tz = "naive" THEN InstantShift(Instant(ts), 0 - zone)
    ELSE Instant(ts)

\* the UTC instant of a timestamp, the clock reading `clock`:
\* datetime.fromisoformat, a naive datetime taken as UTC
as_utc(ts, clock) ==
    IF ts.kind \in {"None", "empty"} THEN FallbackInstant(clock)
    ELSE IF ts.kind = "garbage" THEN FallbackInstant(clock)
    ELSE ParsedInstant(ts, 0)

\* datetime.isoformat() of the aware UTC datetime at the instant t
IsoOfInstant(t) ==
    LET dt == DatetimeOf(t)
    IN [kind |-> "iso", y |-> dt.y, m |-> dt.m, d |-> dt.d, h |-> dt.h,
        mi |-> dt.mi, s |-> dt.s, us |-> dt.us, tz |-> "offset", off |-> 0]

\* datetime.now(timezone.utc).isoformat(), the clock reading `clock`
IsoOfClock(clock) == IsoOfInstant(Instant(clock))

\* dtp.parse(iso).astimezone(timezone.utc).isoformat() of a date string that
\* parses, in a process whose local zone is `zone` hours east of UTC
IsoOfUtc(ts, zone) == IsoOfInstant(ParsedInstant(ts, zone))

\* whether recency_boost dates the document from the clock: published_at is
\* None (line 94), "" (as_utc, line 50) or does not parse (as_utc, line 62)
ReadsClock(published_at) == published_at.kind \in {"None", "empty", "garbage"}

\* the timedelta now - dt when it is positive, else zero (what max(0.0, ..)
\* leaves of it)
Elapsed(now, dt) ==
    IF InstantLeq(now, dt) THEN <<0, 0, 0>>
    ELSE LET us == now[3] - dt[3]
             bs == IF us < 0 THEN 1 ELSE 0
             s  == now[2] - dt[2] - bs
             bh == IF s < 0 THEN 1 ELSE 0
         IN <<now[1] - dt[1] - bh, s + HOUR_SECONDS * bh, us + SECOND_MICROS * bs>>

\* the age max(0, now - dt) of a document; `clock` is what datetime.now()
\* reads if the document is dated from it
AgeOf(published_at, now, clock) ==
    LET dt == IF published_at.kind = "None"
              THEN FallbackInstant(clock)
              ELSE as_utc(published_at, clock)
    IN Elapsed(Instant(now), dt)

(***************************************************************************)
(* run_ingest_rss and build_embeddings                                     *)
(*                                                                         *)
(* A feed entry is [has, title, summary, link, published, lang]: has is    *)
(* the set of the keys "title", "summary", "link" the entry carries,       *)
(* published its date (kind "None" when the entry has neither `published`  *)
(* nor `updated`), lang the language langdetect reports for its text ("en", *)
(* another code, or "none" when detect raises LangDetectException).  The   *)
(* entries have no key `description`.                                      *)
(***************************************************************************)
FEEDS ==
    <<"https://www.jpl.nasa.gov/feeds/news/",
      "https://earthobservatory.nasa.gov/feeds/rss/all.rss",
      "https://www.nasa.gov/news-release/feed/">>

\* run_ingest_rss(max_items_per_feed=100, since_days=30), the days in hours
MAX_ITEMS_PER_FEED == 100

SINCE_HOURS == 720

\* the Latin-1 characters str.isspace() accepts: space, \t, \n, \r, \f,
\* U+000B, U+001C..U+001F, U+0085, U+00A0
WhitespaceChars == {" ", "\t", "\n", "\r", "\f", "",
                    "", "", "", "", "", " "}

RECURSIVE LStrip(_)
LStrip(s) ==
    IF s # <<>> /\ s[1] \in WhitespaceChars THEN LStrip(Tail(s)) ELSE s

RECURSIVE RStrip(_)
RStrip(s) ==
    IF s # <<>> /\ s[Len(s)] \in WhitespaceChars
    THEN RStrip(SubSeq(s, 1, Len(s) - 1)) ELSE s

\* str.strip()
strip(s) == RStrip(LStrip(s))

\* entry.get(key) or "" for the keys title and summary
TextOf(entry, key) ==
    IF key \notin entry.has THEN <<>>
    ELSE IF key = "title" THEN entry.title ELSE entry.summary

\* whether is_english(entry) raises KeyError: the text is built from
\* entry["title"] and entry["summary"] as soon as one of them is not empty
is_english_Raises(entry) ==
    /\ TextOf(entry, "title") # <<>> \/ TextOf(entry, "summary") # <<>>
    /\ "title" \notin entry.has \/ "summary" \notin entry.has

\* is_english(entry), when it does not raise
is_english(entry) ==
    /\ TextOf(entry, "title") # <<>> \/ TextOf(entry, "summary") # <<>>
    /\ entry.lang = "en"

\* hashlib.sha1(text.encode()).hexdigest(): the digest is not computed, it
\* is named by the text it is the digest of
Sha1Hex(text) == <<"sha1", text>>

\* the item of a feed entry.  `clock` is what datetime.now() reads if the
\* date falls back to it, `zone` the local zone of the process in hours
\* east of UTC; a missing link (None) is written "".
normalize(entry, feed_url, clock, zone) ==
    LET title == strip(TextOf(entry, "title"))
        url   == IF "link" \in entry.has THEN entry.link ELSE ""
    IN [id           |-> Sha1Hex(IF url # "" THEN url ELSE Str(title)),
        type         |-> "news",
        title        |-> title,
        summary      |-> strip(TextOf(entry, "summary")),
        published_at |-> IF entry.published.kind = "iso"
                         THEN IsoOfUtc(entry.published, zone)
                         ELSE IsoOfClock(clock),
        url          |-> url,
        source       |-> feed_url,
        topics       |-> <<>>]

\* the items the dictionary keyed by url holds: in the order in which the
\* urls first appear, each url with the last item that has it
DedupByUrl(items) ==
    LET first == {i \in 1..Len(items) :
                    \A j \in 1..(i - 1) : items[j].url # items[i].url}
        LastOf(i) == CHOOSE j \in 1..Len(items) :
                        /\ items[j].url = items[i].url
                        /\ \A l \in (j + 1)..Len(items) : items[l].url # items[i].url
        Keep(i) == i \in first
        positions == SelectSeq([i \in 1..Len(items) |-> i], Keep)
    IN [p \in 1..Len(positions) |-> items[LastOf(positions[p])]]

RECURSIVE IngestEntries(_, _, _, _, _)
\* the items the inner loop appends for the entries of one feed; ticks[i] is
\* the latest clock reading when the i-th entry has been handled
IngestEntries(entries, ticks, feed_url, clock, zone) ==
    IF entries = <<>> THEN <<>>
    ELSE LET item == normalize(entries[1], feed_url, Reading(clock, ticks[1]), zone)
         IN (IF is_english(entries[1]) /\ item.title # <<>> /\ item.url # ""
             THEN <<item>> ELSE <<>>)
            \o IngestEntries(Tail(entries), Tail(ticks), feed_url, clock, zone)

RECURSIVE IngestFeeds(_, _, _, _, _, _)
\* the loop over FEEDS from the j-th feed on, `output` being the list so
\* far: the entries of the feed are appended, then the cutoff is taken from
\* the clock and applied to the whole list.  ticks holds, feed by feed, the
\* clock readings of the entries and then that of the cutoff.
IngestFeeds(parsed, ticks, j, output, clock, zone) ==
    IF j > Len(FEEDS) THEN output
    ELSE LET n       == Min2(MAX_ITEMS_PER_FEED, Len(parsed[j]))
             entries == SubSeq(parsed[j], 1, n)
             added   == output \o IngestEntries(entries, SubSeq(ticks, 1, n),
                                                FEEDS[j], clock, zone)
             cutoff_date == InstantShift(Instant(Reading(clock, ticks[n + 1])),
                                         0 - SINCE_HOURS)
             Recent(item) == InstantLeq(cutoff_date, ParsedInstant(item.published_at, zone))
         IN IngestFeeds(parsed, SubSeq(ticks, n + 2, Len(ticks)), j + 1,
                        SelectSeq(added, Recent), clock, zone)

\* whether run_ingest_rss raises, the feeds holding the entries parsed[j]
run_ingest_rss_Raises(parsed) ==
    \E j \in 1..Len(FEEDS) :
        \E i \in 1..Min2(MAX_ITEMS_PER_FEED, Len(parsed[j])) :
            is_english_Raises(parsed[j][i])

\* the items run_ingest_rss writes when it does not raise; the clock reads
\* `clock` when the run starts and ticks microseconds later on
run_ingest_rss(parsed, ticks, clock, zone) ==
    DedupByUrl(IngestFeeds(parsed, ticks, 1, <<>>, clock, zone))

\* the row of meta.jsonl build_embeddings writes for an item:
\* as_utc(published_at).isoformat(), or None for a date that is missing
BuiltMetaRow(item, clock) ==
    [title        |-> item.title,
     url          |-> item.url,
     published_at |-> IF item.published_at.kind \in {"None", "empty"}
                      THEN [item.published_at EXCEPT !.kind = "None"]
                      ELSE IsoOfInstant(as_utc(item.published_at, clock)),
     source       |-> item.source]

(***************************************************************************)
(* The dates, clocks and feed entries of the model                         *)
(***************************************************************************)
MaxMeta == 2

MaxK == 3

TS_none == [kind |-> "None", y |-> 0, m |-> 0, d |-> 0, h |-> 0, mi |-> 0,
            s |-> 0, us |-> 0, tz |-> "naive", off |-> 0]

\* the date string of a whole hour
HourStamp(y, m, d, h, tz, off) ==
    [kind |-> "iso", y |-> y, m |-> m, d |-> d, h |-> h, mi |-> 0, s |-> 0,
     us |-> 0, tz |-> tz, off |-> off]

\* "2026-10-16T12:00:00+00:00"
TS_recent == HourStamp(2026, 10, 16, 12, "offset", 0)

\* "1999-06-01T00:00:00+00:00"
TS_1999 == HourStamp(1999, 6, 1, 0, "offset", 0)

\* "" and a string datetime.fromisoformat rejects
TS_empty == [TS_none EXCEPT !.kind = "empty"]

TS_garbage == [TS_none EXCEPT !.kind = "garbage"]

\* "2026-10-30T12:00:00Z"
TS_now == HourStamp(2026, 10, 30, 12, "Z", 0)

\* "2026-10-30T14:00:00+02:00", the same instant
TS_now_east == HourStamp(2026, 10, 30, 14, "offset", 2)

\* "2026-10-30T11:00:00", taken as UTC by as_utc
TS_hour_ago == HourStamp(2026, 10, 30, 11, "naive", 0)

\* "2026-10-30T11:30:15.250000Z"
TS_minutes_ago ==
    [kind |-> "iso", y |-> 2026, m |-> 10, d |-> 30, h |-> 11, mi |-> 30,
     s |-> 15, us |-> 250000, tz |-> "Z", off |-> 0]

\* "2026-11-05T00:00:00Z", after the instant of the call
TS_future == HourStamp(2026, 11, 5, 0, "Z", 0)

\* "1990-01-01T00:00:00Z" and "1980-01-01T00:00:00Z"
TS_1990 == HourStamp(1990, 1, 1, 0, "Z", 0)

TS_1980 == HourStamp(1980, 1, 1, 0, "Z", 0)

\* a date string of the zone Z, to the microsecond
Stamp(y, m, d, h, mi, sec, us) ==
    [kind |-> "iso", y |-> y, m |-> m, d |-> d, h |-> h, mi |-> mi, s |-> sec,
     us |-> us, tz |-> "Z", off |-> 0]

\* "1999-09-04T22:00:00Z": 238022 hours before 2026-10-30T12:00Z, and the
\* dates one and two microseconds after it
TS_subnormal == Stamp(1999, 9, 4, 22, 0, 0, 0)

TS_subnormal_1us == Stamp(1999, 9, 4, 22, 0, 0, 1)

TS_subnormal_2us == Stamp(1999, 9, 4, 22, 0, 0, 2)

\* "1999-05-13T07:16:08.412983Z" and the date a microsecond before it,
\* about 240772.7 hours before 2026-10-30T12:00Z
TS_tie_late == Stamp(1999, 5, 13, 7, 16, 8, 412983)

TS_tie_early == Stamp(1999, 5, 13, 7, 16, 8, 412982)

\* "1998-04-08T16:00:00Z" and "1998-04-08T15:00:00Z": 250364 and 250365
\* hours before 2026-10-30T12:00Z
TS_last_positive == Stamp(1998, 4, 8, 16, 0, 0, 0)

TS_underflow == Stamp(1998, 4, 8, 15, 0, 0, 0)

Timestamps == {TS_none, TS_empty, TS_garbage, TS_now, TS_now_east, TS_hour_ago,
               TS_minutes_ago, TS_future, TS_recent, TS_1999, TS_1990, TS_1980,
               TS_subnormal, TS_subnormal_1us, TS_subnormal_2us, TS_tie_late,
               TS_tie_early, TS_last_positive, TS_underflow}

\* the datetime of a whole hour
HourOf(y, m, d, h) ==
    [y |-> y, m |-> m, d |-> d, h |-> h, mi |-> 0, s |-> 0, us |-> 0]

\* no clock has been read
NoClock == HourOf(0, 0, 0, 0)

\* datetime.now(timezone.utc) at the time of the search
Nows == {HourOf(2026, 10, 30, 12)}

\* the instants at which the recency scorer is applied to two timestamps:
\* at the later one an undated document is old enough for its recency to be
\* a subnormal number
RecencyNows == Nows \cup {HourOf(2028, 1, 15, 12)}

\* how many microseconds after the first clock reading of a run a later
\* datetime.now() of the same run may read: the clock does not run
\* backwards, and two readings may be the same
Ticks == {0, 1}

\* "2026-10-16T14:00:00+02:00", the instant of TS_recent
TS_recent_east == HourStamp(2026, 10, 16, 14, "offset", 2)

\* "2026-10-24T12:00:00", a date in the local zone of the ingesting process
TS_feed_week_local == HourStamp(2026, 10, 24, 12, "naive", 0)

\* "2026-09-28T12:00:00Z", since_days before the clock of the ingestion
TS_feed_month == HourStamp(2026, 9, 28, 12, "Z", 0)

T_dragon_padded ==
    \* " Dragon delivers cargo to the ISS\n"
    <<" ">> \o T_dragon \o <<"\n">>

S_arrives_padded ==
    \* "\tCargo to the station arrives "
    <<"\t">> \o S_arrives \o <<" ">>

T_blank ==
    \* " \t"
    <<" ", "\t">>

AllKeys == {"title", "summary", "link"}

FeedEntries ==
    {[has |-> AllKeys, title |-> T_dragon_padded, summary |-> S_arrives_padded,
      link |-> "u1", published |-> TS_recent_east, lang |-> "en"],
     [has |-> AllKeys, title |-> T_artemis, summary |-> S_moon_rocks,
      link |-> "u2", published |-> TS_feed_week_local, lang |-> "en"],
     [has |-> AllKeys, title |-> T_crs, summary |-> EmptyText,
      link |-> "u3", published |-> TS_none, lang |-> "en"],
     [has |-> AllKeys, title |-> T_stations, summary |-> S_moon,
      link |-> "u4", published |-> TS_garbage, lang |-> "en"],
     [has |-> AllKeys, title |-> T_artemis, summary |-> S_moon,
      link |-> "u5", published |-> TS_feed_month, lang |-> "en"],
     [has |-> AllKeys, title |-> T_blank, summary |-> S_moon,
      link |-> "u6", published |-> TS_none, lang |-> "en"],
     [has |-> AllKeys, title |-> T_stations, summary |-> S_moon_rocks,
      link |-> "u7", published |-> TS_recent, lang |-> "fr"],
     [has |-> {"title", "link"}, title |-> T_crs, summary |-> EmptyText,
      link |-> "u8", published |-> TS_recent, lang |-> "en"]}

\* the clock when the ingestion starts
IngestClocks == {HourOf(2026, 10, 28, 12)}

\* the local zone of the ingesting process, in hours east of UTC
LocalZones == {0, 0 - 5}

\* the published_at values the ingestion of FeedEntries can write
FeedDates ==
    {normalize(e, FEEDS[1], Reading(c, t), z).published_at :
        e \in FeedEntries, c \in IngestClocks, t \in Ticks, z \in LocalZones}

(***************************************************************************)
(* recency_boost                                                           *)
(***************************************************************************)
TAU_DAYS == 14

DAY_SECONDS == 86400

\* timedelta.total_seconds(): the microseconds of the age divided by 10^6
total_seconds(age) ==
    FRatio(BigAdd(BigMul(BigOfNat(age[1] * HOUR_SECONDS + age[2]),
                         BigOfNat(SECOND_MICROS)),
                  BigOfNat(age[3])),
           BigOfNat(SECOND_MICROS), 0)

\* max(0.0, (now - dt).total_seconds() / 86400.0), the age being now - dt
\* or zero
age_days(age) == FDiv(total_seconds(age), FOfNat(DAY_SECONDS))

\* exp(-age_days / tau_days)
ExpOfAge(age) == FExpNeg(FDiv(age_days(age), FOfNat(TAU_DAYS)))

\* the recency of an age with the binary64 value x, n billionths: in
\* thousandths (rounded), the age, x and n
RecencyWith(age, x, n) == <<(n + 500000) \div 1000000, age, x, n>>

RecencyFrom(age, x) == RecencyWith(age, x, FloorNano(x))

\* the recency of an age
RecencyValue(age) == RecencyFrom(age, ExpOfAge(age))

\* an age floored to whole days
DayFloor(age) == <<(age[1] \div 24) * 24, 0, 0>>

\* the ages the dates and clocks of the model give rise to, and the same
\* floored to whole days
AgesOf(ages) == ages \cup {DayFloor(a) : a \in ages}

ModelAges ==
    AgesOf({AgeOf(ts, now, Reading(now, t)) :
               ts \in Timestamps \cup FeedDates,
               now \in Nows \cup RecencyNows, t \in Ticks})

\* RecencyValue tabulated over the ages `ages` and, when it is not one of
\* them, the age `age`
RecencyTable(ages, age) == [a \in ages \cup {age} |-> RecencyValue(a)]

\* the table over the ages of the model, so that a search looks a recency
\* up instead of computing the exponential again (the `@@ <<>>` makes the
\* model checker build the table once)
RecencyMemo == RecencyTable(ModelAges, <<0, 0, 0>>) @@ <<>>

\* the recency of an age: the entry of the table, or the value computed
\* for an age the table does not hold
RecencyIn(memo, age) ==
    IF age \in DOMAIN memo THEN memo[age] ELSE RecencyTable({}, age)[age]

RecencyOf(age) == RecencyIn(RecencyMemo, age)

\* a mutant of recency_boost: the age is floored to whole days
recency_boost_DayFloor(published_at, now, clock) ==
    RecencyOf(DayFloor(AgeOf(published_at, now, clock)))

\* exp(-age_days / tau_days) for the age of the document
recency_boost(published_at, now, clock) ==
    RecencyOf(AgeOf(published_at, now, clock))

\* the age in whole hours from which exp(-age_days / 14) is 0.0 in binary64
EXP_UNDERFLOW_HOURS == 250365

\* the first age in whole hours at which exp(-age_days / 14) is a subnormal
\* binary64 number, with fewer than 53 significant bits
EXP_SUBNORMAL_HOURS == 238022

\* r1 <= r2 for two recencies, as binary64 values
RecencyLeq(r1, r2) == FLeq(r1[3], r2[3])

(***************************************************************************)
(* Fractions                                                               *)
(***************************************************************************)
\* a <= b for fractions with positive denominators
FracLeq(a, b) ==
    IF a[2] = b[2] THEN a[1] <= b[1] ELSE a[1] * b[2] <= b[1] * a[2]

FracEq(a, b) == FracLeq(a, b) /\ FracLeq(b, a)

(***************************************************************************)
(* hybrid_search                                                           *)
(***************************************************************************)
\* blending weights, in hundredths
SEM_W == 45

KW_W == 35

REC_W == 20

\* the gate penalty 0.6, in tenths
GATE_PENALTY == 6

\* the normalizer's floor 1e-9, in units of 0.5e-9
EPS == 2

\* the retriever is asked for at most this many neighbours
CAND_MAX == 50

\* Python's seq[i] for a list of length n: the 1-based position read, or 0
\* when the access raises IndexError
PyIndex(n, i) ==
    IF i >= 0 THEN (IF i < n THEN i + 1 ELSE 0)
    ELSE (IF -i <= n THEN n + i + 1 ELSE 0)

\* the test `idx == -1 or idx >= len(meta)` of the assembly loop
Skipped(idx, n_meta) == idx = -1 \/ idx >= n_meta

\* whether assembling the hit idx raises IndexError
Raises(idx, n_meta, n_raw) ==
    /\ ~Skipped(idx, n_meta)
    /\ \/ PyIndex(n_meta, idx) = 0
       \/ (idx < n_raw /\ PyIndex(n_raw, idx) = 0)

\* `pub_at = m.get("published_at") or m.get("published")`: an empty string
\* is falsy and the rows have no key "published"
PubAt(m) ==
    IF m.published_at.kind = "empty"
    THEN [m.published_at EXCEPT !.kind = "None"]
    ELSE m.published_at

\* the candidate built from one hit that is neither skipped nor raising;
\* tick is the clock reading taken if the document is dated from the clock
Candidate(hit, tick, query, now, m_rows, r_rows) ==
    LET m       == m_rows[PyIndex(Len(m_rows), hit.idx)]
        summary == IF hit.idx < Len(r_rows)
                   THEN r_rows[PyIndex(Len(r_rows), hit.idx)].summary
                   ELSE EmptyText
        pub_at  == PubAt(m)
    IN [idx          |-> hit.idx,
        title        |-> m.title,
        summary      |-> summary,
        url          |-> m.url,
        published_at |-> pub_at,
        source       |-> m.source,
        semantic_raw |-> hit.score,
        keyword_raw  |-> KeywordRaw(query, m.title, summary),
        keyword_parts |-> KeywordParts(query, m.title, summary),
        recency      |-> recency_boost(pub_at, now, Reading(now, tick))]

RECURSIVE Assemble(_, _, _, _, _, _)
\* the assembly loop over the hits, given that no hit raises; ticks[i] is
\* the latest clock reading when the i-th hit has been handled
Assemble(hits, ticks, query, now, m_rows, r_rows) ==
    IF hits = <<>> THEN <<>>
    ELSE (IF Skipped(hits[1].idx, Len(m_rows)) THEN <<>>
          ELSE <<Candidate(hits[1], ticks[1], query, now, m_rows, r_rows)>>)
         \o Assemble(Tail(hits), Tail(ticks), query, now, m_rows, r_rows)

SeqMax(f, n) == CHOOSE v \in {f[i] : i \in 1..n} : \A i \in 1..n : f[i] <= v

SeqMin(f, n) == CHOOSE v \in {f[i] : i \in 1..n} : \A i \in 1..n : v <= f[i]

\* a mutant of semantic_norm: the denominator is not floored
semantic_norm_NoFloor(raw, smin, smax) ==
    <<raw - smin, IF smax = smin THEN 1 ELSE smax - smin>>

\* (raw - smin) / max(1e-9, smax - smin)
semantic_norm(raw, smin, smax) == <<raw - smin, Max2(EPS, smax - smin)>>

\* a mutant of keyword_norm: additive smoothing of both terms
keyword_norm_Smoothed(raw, kmaxraw) == <<raw + 1, kmaxraw + 1>>

\* raw / max(1e-9, kmaxraw).  A lexical score is a whole number of tenths,
\* so the floor applies only when kmaxraw is 0; every raw is then 0 and
\* 0 / 1e-9 is the fraction 0 / 1
keyword_norm(raw, kmaxraw) == <<raw, IF kmaxraw >= 1 THEN kmaxraw ELSE 1>>

\* what the binary64 score of a candidate is computed from: whether it is
\* the recency term alone (semantic_norm 0 and keyword_norm 0), the two
\* norms, the gate, the recency, and in f the raw semantic score with the
\* minimum and the maximum of the pool and the addends of the lexical score
\* with those of the candidates whose lexical score is the maximum
RecencyTerm(sn, kn, rec, gate, f) ==
    [alone |-> sn[1] = 0 /\ kn[1] = 0, base |-> <<sn, kn>>, gate |-> gate,
     rec |-> rec, f |-> f]

\* a mutant of score_final: the penalty is applied when the gate passes
score_final_PenaltySwapped(sn, kn, rec, gate, f) ==
    <<(SEM_W * sn[1] * kn[2] * 1000 + KW_W * kn[1] * sn[2] * 1000
         + REC_W * rec[1] * sn[2] * kn[2]) * (IF gate THEN GATE_PENALTY ELSE 10),
      100 * sn[2] * kn[2] * 1000 * 10,
      RecencyTerm(sn, kn, rec, ~gate, f)>>

\* SEM_W*sn + KW_W*kn + REC_W*rec, times 0.6 when the gate fails.  The
\* first two components are the score as a fraction, from the norms as
\* fractions and the recency in thousandths; the denominator is the same
\* for every candidate of a pool.  The third component is what the binary64
\* number the code computes is obtained from (FloatScore), and it is that
\* number by which the candidates are sorted (ScoreLeq).
score_final(sn, kn, rec, gate, f) ==
    <<(SEM_W * sn[1] * kn[2] * 1000 + KW_W * kn[1] * sn[2] * 1000
         + REC_W * rec[1] * sn[2] * kn[2]) * (IF gate THEN 10 ELSE GATE_PENALTY),
      100 * sn[2] * kn[2] * 1000 * 10,
      RecencyTerm(sn, kn, rec, gate, f)>>

\* float(s) of a raw semantic score of n units: n * 0.5e-9
SemFloat(n) == FMul(FOfNat(n), FLiteral(1, 2000000000))

SemFloats(ns) == AsSeq([i \in 1..Len(ns) |-> SemFloat(ns[i])])

\* line 95 for s = <<raw, smin, smax>>:
\* (raw - smin) / max(1e-9, smax - smin)
FloatSemNorm(s) ==
    FDiv(FSub(s[1], s[2]), FMax(FLiteral(1, 1000000000), FSub(s[3], s[2])))

\* the binary64 value of a lexical score: its addends summed in the order
\* of the code
KeywordFloat(parts) ==
    FSum(AsSeq([i \in 1..Len(parts) |-> FLiteral(parts[i], 10)]))

KeywordTable(pool) == [p \in pool |-> KeywordFloat(p)]

\* the greatest of the binary64 values fs
KeywordMax(fs) == CHOOSE v \in fs : \A w \in fs : FLeq(w, v)

\* lines 99-101: kw / max(1e-9, kmax), the values looked up in tab
KeywordNormIn(tab, kw, tops) ==
    FDiv(tab[kw], FMax(FLiteral(1, 1000000000), KeywordMax({tab[p] : p \in tops})))

FloatKeywordNorm(f) == KeywordNormIn(KeywordTable({f.kw} \cup f.kmax), f.kw, f.kmax)

FWeigh(w, x) == FMul(FLiteral(w, 100), x)

\* line 105: SEM_W * sn + KW_W * kn + REC_W * rec, from left to right
FloatBlend(sn, kn, rec) ==
    FSum(AsSeq([i \in 1..3 |->
                  FWeigh(<<SEM_W, KW_W, REC_W>>[i], <<sn, kn, rec>>[i])]))

\* lines 106-107: score *= 0.6 when the gate fails
FloatPenalty(score, gate) ==
    IF gate THEN score ELSE FMul(score, FLiteral(GATE_PENALTY, 10))

\* the binary64 score_final of lines 91-108
FloatScore(t) ==
    FloatPenalty(FloatBlend(FloatSemNorm(SemFloats(<<t.f.raw, t.f.smin, t.f.smax>>)),
                            FloatKeywordNorm(t.f), t.rec[3]),
                 t.gate)

\* floor(10^9 * num / den) for 0 <= num <= den, three digits at a time
GigaOf(num, den) ==
    LET r0 == num % den
        d1 == (r0 * 1000) \div den
        r1 == (r0 * 1000) % den
        d2 == (r1 * 1000) \div den
        r2 == (r1 * 1000) % den
        d3 == (r2 * 1000) \div den
    IN (num \div den) * 1000000000 + d1 * 1000000 + d2 * 1000 + d3

\* the value v of a blend in units of 1e-9 after the gate
NanoPenalty(v, gate) ==
    IF gate THEN v
    ELSE GATE_PENALTY * (v \div 10) + (GATE_PENALTY * (v % 10)) \div 10

NanoBlend(sn, kn, rec) ==
    GigaOf(SEM_W * sn[1] * kn[2] + KW_W * kn[1] * sn[2], 100 * sn[2] * kn[2])
    + rec[4] \div (100 \div REC_W)

\* the final score in units of 1e-9, rounded down term by term: the score
\* lies from this number to less than NANO_MARGIN units above it
ScoreNano(s) ==
    NanoPenalty(NanoBlend(s[3].base[1], s[3].base[2], s[3].rec), s[3].gate)

NANO_MARGIN == 3

\* a recency below 2^ABSORBED_EXP adds nothing to a positive
\* 0.45*sn + 0.35*kn: that sum is at least 2^-33 (the norms are ratios of
\* numbers below 2^31), so 0.20 * rec is less than half a unit in its last
\* place
ABSORBED_EXP == -88

Absorbed(x) == FExponent(x) < ABSORBED_EXP

\* the least exponent of a recency whose products with 0.20 and with 0.6 are
\* normal numbers, rounded with a relative error of 2^-53
NORMAL_EXP == -1000

\* two recencies x > y at least this many binary orders below x apart give
\* different products with 0.20 and 0.6
RELATIVE_GAP == 48

\* two recencies at least 2^ABSOLUTE_GAP apart give different sums
\* b + 0.20 * rec for any b: a sum is at most 1 and rounded to 2^-53
ABSOLUTE_GAP == -44

ResolvedBy(gap, top, alone) ==
    IF alone THEN top >= NORMAL_EXP /\ gap >= top - RELATIVE_GAP
    ELSE gap >= ABSOLUTE_GAP

\* whether the recencies x > y are far enough apart for every operation of
\* the score to keep them apart
Resolved(x, y, alone) == ResolvedBy(FExponent(FSub(x, y)), FExponent(x), alone)

\* x <= y follows from the rounding being monotone: the same norms, a
\* recency that is no greater, and no penalty that y alone has
CertainLeq(x, y) ==
    /\ x.f = y.f
    /\ FLeq(x.rec[3], y.rec[3])
    /\ x.gate => y.gate

\* x = y: the same norms and gate, and both recencies absorbed
CertainTie(x, y) ==
    /\ x.f = y.f
    /\ x.gate = y.gate
    /\ ~x.alone
    /\ Absorbed(x.rec[3])
    /\ Absorbed(y.rec[3])

\* x < y for the terms of two scores of a nanos and b nanos, without
\* rounding anything: the values to the ninth decimal are apart, or the
\* norms are the same and the recencies are resolved, or the norms are the
\* same and x alone has the penalty
CertainLessOf(x, y, a, b) ==
    \/ b - a > NANO_MARGIN
    \/ /\ x.f = y.f
       /\ x.gate = y.gate
       /\ ~FLeq(y.rec[3], x.rec[3])
       /\ Resolved(y.rec[3], x.rec[3], x.alone)
    \/ /\ x.f = y.f
       /\ ~x.gate
       /\ y.gate
       /\ FLeq(x.rec[3], y.rec[3])
       /\ ~x.alone \/ FExponent(x.rec[3]) >= NORMAL_EXP

\* s[1] <= s[2]
FLeqBoth(s) == FLeq(s[1], s[2])

\* FloatScore(x) <= FloatScore(y) for the terms x and y of two scores of a
\* nanos and b nanos
ScoreLeqOf(x, y, a, b) ==
    IF CertainLeq(x, y) \/ CertainTie(x, y) THEN TRUE
    ELSE IF CertainLessOf(y, x, b, a) THEN FALSE
    ELSE IF CertainLessOf(x, y, a, b) THEN TRUE
    ELSE FLeqBoth(AsSeq([i \in 1..2 |-> FloatScore(<<x, y>>[i])]))

\* a <= b for two final scores of one pool, as the binary64 numbers of
\* lines 91-108: FloatScore(a[3]) <= FloatScore(b[3]).  The comparison is
\* read off the terms where the binary64 arithmetic settles it (CertainLeq,
\* CertainTie, CertainLessOf), and the two numbers are computed and compared
\* in every other case.
ScoreLeq(a, b) == ScoreLeqOf(a[3], b[3], ScoreNano(a), ScoreNano(b))

ScoreEq(a, b) == ScoreLeq(a, b) /\ ScoreLeq(b, a)

\* the candidates with their normalized and final scores, in pool order
Scored(cands, query) ==
    LET n    == Len(cands)
        sem  == [i \in 1..n |-> cands[i].semantic_raw]
        kw   == [i \in 1..n |-> cands[i].keyword_raw]
        smin == SeqMin(sem, n)
        smax == SeqMax(sem, n)
        kmax == SeqMax(kw, n)
        tops == {cands[i].keyword_parts : i \in {j \in 1..n : kw[j] = kmax}}
    IN [i \in 1..n |->
          LET sn   == semantic_norm(cands[i].semantic_raw, smin, smax)
              kn   == keyword_norm(cands[i].keyword_raw, kmax)
              gate == GatePasses(query, cands[i].title, cands[i].summary)
              f    == [raw |-> cands[i].semantic_raw, smin |-> smin,
                       smax |-> smax, kw |-> cands[i].keyword_parts,
                       kmax |-> tops]
          IN [idx           |-> cands[i].idx,
              title         |-> cands[i].title,
              summary       |-> cands[i].summary,
              url           |-> cands[i].url,
              published_at  |-> cands[i].published_at,
              source        |-> cands[i].source,
              semantic_raw  |-> cands[i].semantic_raw,
              keyword_raw   |-> cands[i].keyword_raw,
              keyword_parts |-> cands[i].keyword_parts,
              recency       |-> cands[i].recency,
              semantic_norm |-> sn,
              keyword_norm  |-> kn,
              gate          |-> gate,
              score_final   |-> score_final(sn, kn, cands[i].recency, gate, f)]]

RECURSIVE InsertDesc(_, _)
\* c placed after every element whose score_final is at least its own
InsertDesc(sorted, c) ==
    IF sorted = <<>> THEN <<c>>
    ELSE IF ScoreLeq(c.score_final, sorted[1].score_final)
         THEN <<sorted[1]>> \o InsertDesc(Tail(sorted), c)
         ELSE <<c>> \o sorted

RECURSIVE InsertDescFirst(_, _)
\* c placed before the first element whose score_final is at most its own
InsertDescFirst(sorted, c) ==
    IF sorted = <<>> THEN <<c>>
    ELSE IF ScoreLeq(sorted[1].score_final, c.score_final)
         THEN <<c>> \o sorted
         ELSE <<sorted[1]>> \o InsertDescFirst(Tail(sorted), c)

RECURSIVE SortDescUnstable(_)
\* a mutant of SortDesc: equal scores come out in reverse pool order
SortDescUnstable(cands) ==
    IF cands = <<>> THEN <<>>
    ELSE InsertDescFirst(SortDescUnstable(SubSeq(cands, 1, Len(cands) - 1)),
                         cands[Len(cands)])

RECURSIVE SortDesc(_)
\* candidates.sort(key=score_final, reverse=True): descending and stable
SortDesc(cands) ==
    IF cands = <<>> THEN <<>>
    ELSE InsertDesc(SortDesc(SubSeq(cands, 1, Len(cands) - 1)), cands[Len(cands)])

\* Python's seq[:k]
SliceTo(seq, k) ==
    IF k >= 0 THEN SubSeq(seq, 1, Min2(k, Len(seq)))
    ELSE SubSeq(seq, 1, Max2(0, Len(seq) + k))

\* the result record built from one sorted candidate
Result(c) ==
    [title          |-> c.title,
     url            |-> c.url,
     published_at   |-> c.published_at,
     source         |-> c.source,
     score_final    |-> c.score_final,
     score_semantic |-> c.semantic_norm,
     score_keyword  |-> c.keyword_norm,
     score_recency  |-> c.recency,
     semantic_raw   |-> c.semantic_raw,
     keyword_raw    |-> c.keyword_raw]

(***************************************************************************)
(* The document tables and the inputs of a search                          *)
(***************************************************************************)
Corpus ==
    <<[title |-> T_dragon, summary |-> S_arrives, url |-> "u1",
       source |-> "feed", published_at |-> TS_recent],
      [title |-> T_artemis, summary |-> S_moon_rocks, url |-> "u2",
       source |-> "feed", published_at |-> TS_1999],
      [title |-> T_crs, summary |-> EmptyText, url |-> "u3",
       source |-> "feed", published_at |-> TS_none],
      [title |-> T_stations, summary |-> S_moon, url |-> "u4",
       source |-> "feed", published_at |-> TS_none]>>

\* the row of meta.jsonl written for a document
MetaRow(doc) == [title |-> doc.title, url |-> doc.url,
                 published_at |-> doc.published_at, source |-> doc.source]

\* the part of a raw item that hybrid_search reads
RawRow(doc) == [summary |-> doc.summary]

\* n documents of the corpus, from the one at position start on
Window(start, n) ==
    [i \in 1..n |-> Corpus[((start + i - 2) % Len(Corpus)) + 1]]

KValues == (0 - 2)..MaxK

\* raw semantic scores the retriever reports, in units of 0.5e-9
SemVals == {0, 1, 4}

\* identifiers the retriever reports for a metadata table of n rows
IdVals(n) == {0 - (n + 1), 0 - n, 0 - 1} \cup 0..n

\* what semantic_candidates returns for cand_k neighbours: scores in
\* ascending order (a flat L2 index reports distances, nearest first), no
\* identifier but the sentinel reported twice
Retrieved(cand_k, n) ==
    {h \in [1..cand_k -> [score : SemVals, idx : IdVals(n)]] :
        /\ \A i \in 1..(cand_k - 1) : h[i].score <= h[i + 1].score
        /\ \A i, j \in 1..cand_k :
              (i # j /\ h[i].idx = h[j].idx) => h[i].idx = -1}

\* whether handling the hit reads the clock: it is assembled and its
\* document is dated from the clock
HitReadsClock(hit, m_rows) ==
    /\ ~Skipped(hit.idx, Len(m_rows))
    /\ PyIndex(Len(m_rows), hit.idx) # 0
    /\ ReadsClock(PubAt(m_rows[PyIndex(Len(m_rows), hit.idx)]))

\* the clock readings of one assembly loop over hits: ticks[i] is the
\* reading taken for the i-th hit, or the reading before it when the hit
\* takes none
Readings(hits, m_rows) ==
    {t \in [1..Len(hits) -> Ticks] :
        \A i \in 1..Len(hits) :
            LET before == IF i = 1 THEN 0 ELSE t[i - 1]
            IN IF HitReadsClock(hits[i], m_rows)
               THEN t[i] >= before
               ELSE t[i] = before}

\* no /search request has been answered
NoResponse == [code |-> 0, query |-> EmptyText, count |-> 0,
               called |-> FALSE, raised |-> FALSE, returned |-> 0]

\* the API process before its startup event: hybrid_search_func = None
ApiCreated == [phase |-> "created", func |-> "None", import_ok |-> FALSE,
               last |-> NoResponse]

\* no feed has been fetched: the tables are given as they are
NoFeed == [stage |-> "none", parsed |-> <<>>, zone |-> 0, clock |-> NoClock]

\* no lexical probe is in progress
NoProbe == [fn |-> "none", query |-> EmptyText, title |-> EmptyText,
            summary |-> EmptyText, hits |-> <<0, 0>>, score |-> 0, gate |-> TRUE]

\* no search is in progress
IdleCall == [status |-> "idle", query |-> EmptyText, k |-> 0,
             now |-> NoClock,
             hits |-> <<>>, ticks |-> <<>>, candidates |-> <<>>,
             results |-> <<>>]

Init ==
    /\ \E start \in 1..Len(Corpus), n \in 1..MaxMeta, short \in 0..1 :
          /\ meta = [i \in 1..n |-> MetaRow(Window(start, n)[i])]
          /\ raw_items = [i \in 1..(n - short) |-> RawRow(Window(start, n)[i])]
    /\ call = IdleCall
    /\ api = ApiCreated
    /\ feed = NoFeed
    /\ probe = NoProbe

\* a mutant of NewPool: the list an earlier call filled is filled further
NewPool_Carried(earlier) == earlier

\* `candidates = []`: the pool of a call starts empty, whatever pool an
\* earlier call assembled
NewPool(earlier) == <<>>

\* the candidates of a call whose assembly does not raise, scored, in pool
\* order
Pool(earlier, query, now, hits, ticks) ==
    Scored(NewPool(earlier) \o Assemble(hits, ticks, query, now, meta, raw_items),
           query)

\* the scored candidates `pool` in pool order, and the same after the sort
Ranked(pool) == <<pool, SortDesc(pool)>>

\* the candidates of a call in pool order and after the sort: two empty
\* lists when the assembly loop raises
Searched(earlier, query, now, hits, ticks) ==
    IF \E i \in 1..Len(hits) : Raises(hits[i].idx, Len(meta), Len(raw_items))
    THEN <<(<<>>), <<>>>>
    ELSE Ranked(Pool(earlier, query, now, hits, ticks))

\* what a call leaves whose candidates are ranked[1] in pool order and
\* ranked[2] after the sort
Outcome(query, k, now, hits, ticks, ranked) ==
    IF \E i \in 1..Len(hits) : Raises(hits[i].idx, Len(meta), Len(raw_items))
    THEN [status |-> "raised", query |-> query, k |-> k, now |-> now,
          hits |-> hits, ticks |-> <<>>, candidates |-> <<>>, results |-> <<>>]
    ELSE [status |-> "returned", query |-> query, k |-> k, now |-> now,
          hits |-> hits, ticks |-> ticks,
          candidates |-> ranked[1],
          results |-> LET top == SliceTo(ranked[2], k)
                      IN [i \in 1..Len(top) |-> Result(top[i])]]

\* what one call hybrid_search(query, k) leaves, from load_meta to the
\* return or to the IndexError of the assembly loop, the retriever
\* reporting hits, the clock reading ticks and an earlier call having
\* assembled the pool `earlier`
SearchOutcome(earlier, query, k, now, hits, ticks) ==
    Outcome(query, k, now, hits, ticks,
            Searched(earlier, query, now, hits, ticks))

\* one call hybrid_search(query, k)
HybridSearch ==
    /\ call.status = "idle"
    /\ \E query \in SearchQueries, now \in Nows,
          hits \in Retrieved(Min2(CAND_MAX, Len(meta)), Len(meta)) :
          \E ticks \in Readings(hits, meta) :
              \E ranked \in {Searched(call.candidates, query, now, hits, ticks)},
                 k \in KValues :
                    call' = Outcome(query, k, now, hits, ticks, ranked)
    /\ UNCHANGED <<meta, raw_items, probe, api, feed>>

\* the caller has taken the result; nothing of the call is kept
Return ==
    /\ call.status # "idle"
    /\ call' = IdleCall
    /\ UNCHANGED <<meta, raw_items, probe, api, feed>>

Next == HybridSearch \/ Return

Spec == Init /\ [][Next]_vars

(***************************************************************************)
(* The lexical scorer applied to one (query, title, summary)               *)
(***************************************************************************)
InitText ==
    /\ meta = <<>>
    /\ raw_items = <<>>
    /\ call = IdleCall
    /\ api = ApiCreated
    /\ feed = NoFeed
    /\ \E q \in Queries, t \in Titles, s \in Summaries :
          probe = [fn |-> "input", query |-> q, title |-> t, summary |-> s,
                   hits |-> <<0, 0>>, score |-> 0, gate |-> TRUE]

ScoreText ==
    /\ probe.fn = "input"
    /\ probe' = [probe EXCEPT
                    !.fn = "scored",
                    !.hits = keyword_hits(probe.query, probe.title, probe.summary),
                    !.score = enhanced_keyword_score(probe.query, probe.title,
                                                     probe.summary),
                    !.gate = must_have_gate(probe.query, probe.title, probe.summary)]
    /\ UNCHANGED <<meta, raw_items, call, api, feed>>

NextText == ScoreText

SpecText == InitText /\ [][NextText]_vars

(***************************************************************************)
(* Two searches, one after the other, on the same tables                   *)
(*                                                                         *)
(* When the second search starts, probe keeps the record of the first.     *)
(***************************************************************************)
RepeatQueries == {Q_cargo_station, Q_the}

\* raw semantic scores the retriever reports in the repeated searches
RepeatSemVals == {0, 4}

\* what the retriever reports: every row once, in the order of the table
\* or in the reverse order, scores ascending
RepeatRetrieved(n) ==
    {h \in Retrieved(n, n) :
        /\ \A i \in 1..n : h[i].score \in RepeatSemVals
        /\ \/ \A i \in 1..n : h[i].idx = i - 1
           \/ \A i \in 1..n : h[i].idx = n - i}

FirstSearch ==
    /\ call.status = "idle"
    /\ probe.fn = "none"
    /\ \E query \in RepeatQueries, now \in Nows,
          hits \in RepeatRetrieved(Min2(CAND_MAX, Len(meta))) :
          \E ticks \in Readings(hits, meta) :
              call' = SearchOutcome(call.candidates, query, MaxK, now, hits, ticks)
    /\ UNCHANGED <<meta, raw_items, probe, api, feed>>

SearchAgain ==
    /\ call.status = "returned"
    /\ probe.fn = "none"
    /\ \E query \in RepeatQueries, now \in Nows,
          hits \in RepeatRetrieved(Min2(CAND_MAX, Len(meta))) :
          \E ticks \in Readings(hits, meta) :
              call' = SearchOutcome(call.candidates, query, MaxK, now, hits, ticks)
    /\ probe' = [fn |-> "earlier", call |-> call]
    /\ UNCHANGED <<meta, raw_items, api, feed>>

NextRepeat == FirstSearch \/ SearchAgain

SpecRepeat == Init /\ [][NextRepeat]_vars

(***************************************************************************)
(* The pipeline: run_ingest_rss, build_embeddings, hybrid_search           *)
(*                                                                         *)
(* feed.parsed[j] is what feedparser returns for FEEDS[j], feed.zone the   *)
(* local zone of the ingesting process, feed.clock its clock at the start. *)
(***************************************************************************)
\* whether handling the entry reads the clock: it passes the language test
\* and its date falls back to datetime.now()
EntryReadsClock(entry) == is_english(entry) /\ entry.published.kind # "iso"

\* for every clock reading run_ingest_rss may take, in the order of the
\* code, whether it is taken: one per entry, one per feed for the cutoff
IngestSchedule(parsed) ==
    Flatten([j \in 1..Len(parsed) |->
                [i \in 1..Len(parsed[j]) |-> EntryReadsClock(parsed[j][i])]
                \o <<TRUE>>])

\* the clock readings of one run: ticks[i] is the i-th reading of the
\* schedule, or the reading before it when it is not taken
IngestReadings(parsed) ==
    LET taken == IngestSchedule(parsed) IN
    {t \in [1..Len(taken) -> Ticks] :
        \A i \in 1..Len(taken) :
            LET before == IF i = 1 THEN 0 ELSE t[i - 1]
            IN IF taken[i] THEN t[i] >= before ELSE t[i] = before}

InitPipeline ==
    /\ meta = <<>>
    /\ raw_items = <<>>
    /\ call = IdleCall
    /\ probe = NoProbe
    /\ api = ApiCreated
    /\ \E entries \in [1..MaxMeta -> FeedEntries], first \in {MaxMeta - 1, MaxMeta},
          zone \in LocalZones :
          feed = [NoFeed EXCEPT
                     !.stage = "fetched",
                     !.parsed = <<SubSeq(entries, 1, first),
                                  SubSeq(entries, first + 1, MaxMeta), <<>> >>,
                     !.zone = zone]

\* one run of run_ingest_rss: it writes the items, or raises and writes
\* nothing
Ingest ==
    /\ feed.stage = "fetched"
    /\ \E clock \in IngestClocks, ticks \in IngestReadings(feed.parsed) :
          IF run_ingest_rss_Raises(feed.parsed)
          THEN /\ raw_items' = raw_items
               /\ feed' = [feed EXCEPT !.stage = "failed", !.clock = clock]
          ELSE /\ raw_items' = run_ingest_rss(feed.parsed, ticks, clock, feed.zone)
               /\ feed' = [feed EXCEPT !.stage = "ingested", !.clock = clock]
    /\ UNCHANGED <<meta, call, probe, api>>

BuildEmbeddings ==
    /\ feed.stage = "ingested"
    /\ meta' = [i \in 1..Len(raw_items) |-> BuiltMetaRow(raw_items[i], feed.clock)]
    /\ feed' = [feed EXCEPT !.stage = "indexed"]
    /\ UNCHANGED <<raw_items, call, probe, api>>

PipelineSearch ==
    /\ feed.stage = "indexed"
    /\ call.status = "idle"
    /\ \E query \in SearchQueries, now \in Nows,
          hits \in RepeatRetrieved(Min2(CAND_MAX, Len(meta))) :
          \E ticks \in Readings(hits, meta) :
              call' = SearchOutcome(call.candidates, query, MaxK, now, hits, ticks)
    /\ UNCHANGED <<meta, raw_items, probe, api, feed>>

NextPipeline == Ingest \/ BuildEmbeddings \/ PipelineSearch

SpecPipeline == InitPipeline /\ [][NextPipeline]_vars

(***************************************************************************)
(* The API process (src/app/api.py)                                        *)
(*                                                                         *)
(* api.last is the answer to the latest /search request: the status code,  *)
(* the query and count of a 200 body, and what happened inside the         *)
(* handler (whether hybrid_search was called, whether it raised, how many  *)
(* results it returned).                                                   *)
(***************************************************************************)
\* startup_event: the import of hybrid_search succeeds or raises; the
\* exception is logged and the startup goes on
Startup ==
    /\ api.phase = "created"
    /\ \E ok \in BOOLEAN :
          api' = [api EXCEPT !.phase = "up",
                             !.func = IF ok THEN "hybrid_search" ELSE "None",
                             !.import_ok = ok]
    /\ UNCHANGED <<meta, raw_items, call, probe, feed>>

\* a mutant of Respond: an exception of the search is answered as an empty
\* result list
Respond_EmptyOnError(func, q, outcome) ==
    IF func = "None"
    THEN [code |-> 503, query |-> EmptyText, count |-> 0,
          called |-> FALSE, raised |-> FALSE, returned |-> 0]
    ELSE IF outcome.status = "raised"
    THEN [code |-> 200, query |-> q, count |-> 0,
          called |-> TRUE, raised |-> TRUE, returned |-> 0]
    ELSE [code |-> 200, query |-> q, count |-> Len(outcome.results),
          called |-> TRUE, raised |-> FALSE, returned |-> Len(outcome.results)]

\* the answer of search(q, k): 503 without a search function, 500 when
\* hybrid_search raises, else 200 with the count of the hits
Respond(func, q, outcome) ==
    IF func = "None"
    THEN [code |-> 503, query |-> EmptyText, count |-> 0,
          called |-> FALSE, raised |-> FALSE, returned |-> 0]
    ELSE IF outcome.status = "raised"
    THEN [code |-> 500, query |-> EmptyText, count |-> 0,
          called |-> TRUE, raised |-> TRUE, returned |-> 0]
    ELSE [code |-> 200, query |-> q, count |-> Len(outcome.results),
          called |-> TRUE, raised |-> FALSE, returned |-> Len(outcome.results)]

\* the k values of the requests
ApiKs == {0, 1, MaxK}

\* what the retriever reports to a request: every score the same
ApiRetrieved(n) == {h \in Retrieved(n, n) : \A i \in 1..n : h[i].score = 0}

\* a call of hybrid_search in which load_meta, load_raw_items or
\* semantic_candidates raises (a data file is missing or unreadable)
StoreFailure(query, k, now) ==
    [status |-> "raised", query |-> query, k |-> k, now |-> now,
     hits |-> <<>>, ticks |-> <<>>, candidates |-> <<>>, results |-> <<>>]

\* one GET /search?q=..&k=.. after startup
SearchRequest ==
    /\ api.phase = "up"
    /\ \E q \in SearchQueries, now \in Nows,
          hits \in ApiRetrieved(Min2(CAND_MAX, Len(meta))) :
          \E ticks \in Readings(hits, meta) :
              \E ranked \in {Searched(<<>>, q, now, hits, ticks)},
                 k \in ApiKs, store_ok \in BOOLEAN :
                    api' = [api EXCEPT !.last =
                               Respond(api.func, q,
                                       IF store_ok
                                       THEN Outcome(q, k, now, hits, ticks, ranked)
                                       ELSE StoreFailure(q, k, now))]
    /\ UNCHANGED <<meta, raw_items, call, probe, feed>>

NextApi == Startup \/ SearchRequest

SpecApi == Init /\ [][NextApi]_vars

(***************************************************************************)
(* The recency scorer applied to two timestamps at one instant             *)
(***************************************************************************)
\* no recency has been computed
NoRecency == <<0, <<0, 0, 0>>, F_ZERO, 0>>

InitRecency ==
    /\ meta = <<>>
    /\ raw_items = <<>>
    /\ call = IdleCall
    /\ api = ApiCreated
    /\ feed = NoFeed
    /\ \E a \in Timestamps, b \in Timestamps, now \in RecencyNows :
          probe = [fn |-> "dates", a |-> a, b |-> b, now |-> now,
                   ta |-> 0, tb |-> 0, ra |-> NoRecency, rb |-> NoRecency]

ScoreRecency ==
    /\ probe.fn = "dates"
    /\ \E ta \in Ticks, tb \in Ticks :
          /\ ta <= tb
          /\ ~ReadsClock(probe.a) => ta = 0
          /\ ~ReadsClock(probe.b) => tb = ta
          /\ probe' = [probe EXCEPT
                          !.fn = "dated",
                          !.ta = ta,
                          !.tb = tb,
                          !.ra = recency_boost(probe.a, probe.now,
                                               Reading(probe.now, ta)),
                          !.rb = recency_boost(probe.b, probe.now,
                                               Reading(probe.now, tb))]
    /\ UNCHANGED <<meta, raw_items, call, api, feed>>

NextRecency == ScoreRecency

SpecRecency == InitRecency /\ [][NextRecency]_vars

(***************************************************************************)
(* Properties of a search                                                  *)
(***************************************************************************)
Returned == call.status = "returned"

\* the hits the assembly loop does not skip
PoolSize ==
    Cardinality({i \in 1..Len(call.hits) :
                    call.hits[i].idx # -1 /\ call.hits[i].idx < Len(meta)})

\* whether the assembly loop raises on some hit of the call
AssemblyRaises ==
    \E i \in 1..Len(call.hits) :
        Raises(call.hits[i].idx, Len(meta), Len(raw_items))

IsZero(f) == f[1] = 0

IsOne(f) == f[1] = f[2]

InUnitInterval(f) == f[2] > 0 /\ 0 <= f[1] /\ f[1] <= f[2]

\* C1: hybrid_search(query, k) with k <= 0 returns the empty list.
C1_NonPositiveKGivesEmpty ==
    (Returned /\ call.k <= 0) => call.results = <<>>

\* the results are the candidates at the pool positions f[1], f[2], ...
ResultsAt(f) ==
    \A i \in 1..Len(call.results) :
        call.results[i] = Result(call.candidates[f[i]])

\* C2: the returned list is ordered by score_final descending, candidates
\* with equal score_final keep the order in which the retriever returned
\* them, and no candidate left out has a score_final above that of the last
\* one returned.
C2_OrderedStableTruncated ==
    Returned =>
        \E f \in [1..Len(call.results) -> 1..Len(call.candidates)] :
            /\ \A i, j \in 1..Len(call.results) : i # j => f[i] # f[j]
            /\ ResultsAt(f)
            /\ \A i, j \in 1..Len(call.results) :
                  i < j =>
                    /\ ScoreLeq(call.results[j].score_final,
                                call.results[i].score_final)
                    /\ ScoreEq(call.results[j].score_final,
                               call.results[i].score_final) => f[i] < f[j]
            /\ \A p \in 1..Len(call.candidates) :
                  (Len(call.results) > 0 /\ \A i \in 1..Len(call.results) : f[i] # p)
                    => ScoreLeq(call.candidates[p].score_final,
                                call.results[Len(call.results)].score_final)

\* two different documents tie on score_final and both are returned
C2_Witness ==
    /\ Returned
    /\ Len(call.results) = 2
    /\ call.results[1].url # call.results[2].url
    /\ ScoreEq(call.results[1].score_final, call.results[2].score_final)
    /\ call.results[1] = Result(call.candidates[1])

\* the call returned min(k, P) results, P the number of hits the assembly
\* loop does not skip, and the empty list for an empty pool
CountIsMinOfKAndPool ==
    /\ Len(call.candidates) = PoolSize
    /\ Len(call.results) = Min2(call.k, PoolSize)
    /\ PoolSize = 0 => call.results = <<>>

\* C3: for every k >= 0 a search returns, without raising, exactly
\* min(k, P) results, P the number of assembled candidates; the empty pool
\* gives the empty list, a k above P the whole pool, and a candidate failing
\* the must-have gate is counted in P.
C3_MinOfKAndPool ==
    (call.status # "idle" /\ call.k >= 0) =>
        /\ Returned
        /\ CountIsMinOfKAndPool

\* 0.45*semantic_norm + 0.35*keyword_norm + 0.20*recency of a candidate, as
\* the numerator over 100 * 1000 * (the two norms' denominators)
BlendNumerator(c) ==
    45 * c.semantic_norm[1] * c.keyword_norm[2] * 1000
    + 35 * c.keyword_norm[1] * c.semantic_norm[2] * 1000
    + 20 * c.recency[1] * c.semantic_norm[2] * c.keyword_norm[2]

BlendDenominator(c) == 100 * 1000 * c.semantic_norm[2] * c.keyword_norm[2]

\* C4: score_final is 0.45*semantic_norm + 0.35*keyword_norm + 0.20*recency
\* when the must-have gate passes and 0.6 times that value when it fails;
\* two candidates equal in the three components and different in the gate
\* have scores in the ratio 0.6 : 1.
C4_BlendAndPenalty ==
    Returned =>
        /\ \A i \in 1..Len(call.candidates) :
              LET c == call.candidates[i] IN
              IF GatePasses(call.query, c.title, c.summary)
              THEN FracEq(c.score_final,
                          <<10 * BlendNumerator(c), 10 * BlendDenominator(c)>>)
              ELSE FracEq(c.score_final,
                          <<6 * BlendNumerator(c), 10 * BlendDenominator(c)>>)
        /\ \A i, j \in 1..Len(call.candidates) :
              LET a == call.candidates[i]
                  b == call.candidates[j]
              IN (/\ a.semantic_norm = b.semantic_norm
                  /\ a.keyword_norm = b.keyword_norm
                  /\ a.recency = b.recency
                  /\ GatePasses(call.query, a.title, a.summary)
                  /\ ~GatePasses(call.query, b.title, b.summary))
                 => /\ a.score_final[2] = b.score_final[2]
                    /\ 10 * b.score_final[1] = 6 * a.score_final[1]

\* two candidates with the same components, a positive blend and different
\* gate outcomes
C4_Witness ==
    /\ Returned
    /\ \E i, j \in 1..Len(call.candidates) :
          LET a == call.candidates[i]
              b == call.candidates[j]
          IN /\ a.semantic_norm = b.semantic_norm
             /\ a.keyword_norm = b.keyword_norm
             /\ a.recency = b.recency
             /\ a.keyword_norm[1] > 0
             /\ GatePasses(call.query, a.title, a.summary)
             /\ ~GatePasses(call.query, b.title, b.summary)

SemRaws == {call.candidates[i].semantic_raw : i \in 1..Len(call.candidates)}

SemMax == CHOOSE v \in SemRaws : \A w \in SemRaws : w <= v

SemMin == CHOOSE v \in SemRaws : \A w \in SemRaws : v <= w

\* C6 as claimed: every semantic_norm lies in [0,1]; when the raw values are
\* not all equal the candidates with the maximum raw value get 1 and those
\* with the minimum get 0; when all are equal every candidate gets 0.
C6_MaxGetsOneUnlessAllEqual ==
    (Returned /\ Len(call.candidates) > 0) =>
        \A i \in 1..Len(call.candidates) :
            LET c == call.candidates[i] IN
            /\ InUnitInterval(c.semantic_norm)
            /\ (SemMax # SemMin /\ c.semantic_raw = SemMax) => IsOne(c.semantic_norm)
            /\ (SemMax # SemMin /\ c.semantic_raw = SemMin) => IsZero(c.semantic_norm)
            /\ SemMax = SemMin => IsZero(c.semantic_norm)

\* C6 amended: every semantic_norm lies in [0,1] and the candidates with the
\* minimum raw value get 0 (all of them when the raw values are all equal);
\* the candidates with the maximum raw value get 1 when the maximum and the
\* minimum differ by at least 1e-9; when they differ by less, a candidate
\* gets (raw - min) / 1e-9, which is below 1.
C6_MaxGetsOneFromFloorOn ==
    (Returned /\ Len(call.candidates) > 0) =>
        \A i \in 1..Len(call.candidates) :
            LET c == call.candidates[i] IN
            /\ InUnitInterval(c.semantic_norm)
            /\ c.semantic_raw = SemMin => IsZero(c.semantic_norm)
            /\ (SemMax - SemMin >= 2 /\ c.semantic_raw = SemMax)
                  => IsOne(c.semantic_norm)
            /\ SemMax - SemMin < 2
                  => /\ FracEq(c.semantic_norm, <<c.semantic_raw - SemMin, 2>>)
                     /\ ~IsOne(c.semantic_norm)

\* a pool whose raw values differ by 0.5e-9: the maximum gets 1/2
C6_Witness ==
    /\ Returned
    /\ Len(call.candidates) >= 2
    /\ SemMax - SemMin = 1
    /\ \E i \in 1..Len(call.candidates) :
          /\ call.candidates[i].semantic_raw = SemMax
          /\ FracEq(call.candidates[i].semantic_norm, <<1, 2>>)

\* C7: every keyword_norm lies in [0,1], and a candidate whose keyword_raw
\* is 0 gets keyword_norm 0 whatever the other candidates' raw scores are.
C7_KeywordNormUnit ==
    (Returned /\ Len(call.candidates) > 0) =>
        \A i \in 1..Len(call.candidates) :
            LET c == call.candidates[i] IN
            /\ InUnitInterval(c.keyword_norm)
            /\ c.keyword_raw = 0 => IsZero(c.keyword_norm)

\* a pool with a candidate of raw score 0 next to one of positive raw score
C7_Witness ==
    /\ Returned
    /\ \E i, j \in 1..Len(call.candidates) :
          /\ call.candidates[i].keyword_raw = 0
          /\ IsZero(call.candidates[i].keyword_norm)
          /\ call.candidates[j].keyword_raw > 0
          /\ IsOne(call.candidates[j].keyword_norm)

\* the hits whose identifier is a row of the metadata table, in order
RECURSIVE InRangeHits(_)
InRangeHits(hits) ==
    IF hits = <<>> THEN <<>>
    ELSE (IF hits[1].idx >= 0 /\ hits[1].idx < Len(meta) THEN <<hits[1]>> ELSE <<>>)
         \o InRangeHits(Tail(hits))

\* C8: for every identifier the retriever returns, the assembler builds a
\* candidate from the metadata row at exactly that identifier when
\* 0 <= id < len(meta) and skips it otherwise; it never raises and never
\* builds a candidate from another row.
C8_RowAtIdOrSkipped ==
    call.status # "idle" =>
        /\ Returned
        /\ Len(call.candidates) = Len(InRangeHits(call.hits))
        /\ \A i \in 1..Len(call.candidates) :
              /\ call.candidates[i].idx = InRangeHits(call.hits)[i].idx
              /\ call.candidates[i].url = meta[call.candidates[i].idx + 1].url

Undated(ts) == ts.kind \in {"None", "empty", "garbage"}

\* C9: a document whose timestamp is missing or unparseable gets a recency
\* no greater than that of any document of the same query whose timestamp
\* parses.
C9_UndatedIsStalest ==
    Returned =>
        \A i, j \in 1..Len(call.candidates) :
            (/\ Undated(call.candidates[i].published_at)
             /\ ~Undated(call.candidates[j].published_at))
            => RecencyLeq(call.candidates[i].recency, call.candidates[j].recency)

\* C17: with the flat L2 index, whose search reports distances nearest
\* first, the candidate built from the first hit (the nearest neighbour of
\* the query) has a semantic_norm at least as large as every other
\* candidate of the pool.
C17_NearestHasTopSemanticNorm ==
    (/\ Returned
     /\ Len(call.candidates) >= 1
     /\ ~Skipped(call.hits[1].idx, Len(meta))) =>
        /\ call.candidates[1].idx = call.hits[1].idx
        /\ \A i \in 1..Len(call.candidates) :
              FracLeq(call.candidates[i].semantic_norm,
                      call.candidates[1].semantic_norm)

(***************************************************************************)
(* Properties of the lexical scorer                                        *)
(***************************************************************************)
ProbeScored == probe.fn = "scored"

TokenSet(text) == {tokenize(text)[i] : i \in 1..Len(tokenize(text))}

RECURSIVE WordRunsFrom(_, _, _)
\* the maximal runs of \w characters of s, from position i on
WordRunsFrom(s, i, cur) ==
    IF i > Len(s)
    THEN (IF cur = "" THEN {} ELSE {cur})
    ELSE IF IsWordChar(s[i])
         THEN WordRunsFrom(s, i + 1, cur \o s[i])
         ELSE (IF cur = "" THEN {} ELSE {cur}) \cup WordRunsFrom(s, i + 1, "")

\* the whole words of a text, lower-cased
WholeWords(text) == WordRunsFrom(LowerText(text), 1, "")

SixTerms == {"cargo", "resupply", "dragon", "crs", "station", "iss"}

\* C5: must_have_gate returns False exactly when the query's token set
\* holds one of cargo, resupply, dragon, crs, station, iss and none of the
\* six occurs as a whole word in the title or in the summary; for a query
\* with none of them it returns True.
C5_GateFailsExactly ==
    ProbeScored =>
        /\ (~probe.gate) <=>
              /\ TokenSet(probe.query) \cap SixTerms # {}
              /\ (WholeWords(probe.title) \cup WholeWords(probe.summary))
                    \cap SixTerms = {}
        /\ TokenSet(probe.query) \cap SixTerms = {} => probe.gate

\* the gate fails on a document that holds "station" only inside
\* "stations" and "cargo" only inside "cargo_bay"
C5_Witness ==
    /\ ProbeScored
    /\ probe.query = Q_cargo_station
    /\ probe.title = T_stations
    /\ probe.summary = S_cargo_bay
    /\ ~probe.gate

\* the number of positions of tokens that hold a token of the set qs
TokensAmong(tokens, qs) == Cardinality({i \in 1..Len(tokens) : tokens[i] \in qs})

\* the number of pairs (query position, text position) of equal tokens
EqualPairs(q_tokens, tokens) ==
    Cardinality({x \in (1..Len(q_tokens)) \X (1..Len(tokens)) :
                    q_tokens[x[1]] = tokens[x[2]]})

\* C10 as claimed: the term-frequency part is 3 times the number of title
\* tokens equal to some query token plus the number of summary tokens equal
\* to some query token, also when the query repeats a token.
C10_CountsDocumentTokens ==
    ProbeScored =>
        30 * probe.hits[1] + 10 * probe.hits[2]
          = 30 * TokensAmong(tokenize(probe.title), TokenSet(probe.query))
            + 10 * TokensAmong(tokenize(probe.summary), TokenSet(probe.query))

\* C10 amended: the term-frequency part is 3 times the number of pairs of a
\* query token occurrence and an equal title token occurrence plus the
\* number of such pairs for the summary, so a token the query repeats n
\* times counts n times; it is the claimed value when no query token repeats.
C10_CountsTokenPairs ==
    ProbeScored =>
        /\ probe.hits[1] = EqualPairs(tokenize(probe.query), tokenize(probe.title))
        /\ probe.hits[2] = EqualPairs(tokenize(probe.query), tokenize(probe.summary))
        /\ BaseScore(probe.query, probe.title, probe.summary)
             = 30 * probe.hits[1] + 10 * probe.hits[2]
        /\ Cardinality(TokenSet(probe.query)) = Len(tokenize(probe.query))
             => /\ probe.hits[1] = TokensAmong(tokenize(probe.title),
                                               TokenSet(probe.query))
                /\ probe.hits[2] = TokensAmong(tokenize(probe.summary),
                                               TokenSet(probe.query))

\* the query "moon moon" counts the one "moon" of a title twice
C10_Witness ==
    /\ ProbeScored
    /\ probe.query = Q_moon_moon
    /\ probe.title = T_artemis
    /\ probe.summary = S_moon_rocks
    /\ probe.hits = <<2, 4>>

\* the lower-cased query appears verbatim in the lower-cased text
VerbatimIn(query, text) == Contains(LowerText(text), Str(LowerText(query)))

\* what enhanced_keyword_score adds to the term-frequency and synonym parts
PhrasePart ==
    probe.score - BaseScore(probe.query, probe.title, probe.summary)
                - SynonymBonus(probe.query, probe.title, probe.summary)

\* C11: for a query with at least one non-stopword token, the score
\* includes +2.0 when the lower-cased query appears verbatim in the
\* lower-cased title and +0.7 when it appears verbatim in the lower-cased
\* summary.
C11_VerbatimQueryGetsBonus ==
    (ProbeScored /\ TokenSet(probe.query) # {}) =>
        /\ VerbatimIn(probe.query, probe.title) => PhrasePart \in {20, 27}
        /\ VerbatimIn(probe.query, probe.summary) => PhrasePart \in {7, 27}

\* the phrase occurs in the lower-cased text with no word character next to
\* it on either side
OccursWhole(text, phrase) ==
    LET t == LowerText(text)
        n == Len(phrase)
    IN \E i \in 1..(Len(t) - n + 1) :
          /\ \A j \in 1..n : t[i + j - 1] = SubSeq(phrase, j, j)
          /\ i = 1 \/ ~IsWordChar(t[i - 1])
          /\ i + n - 1 = Len(t) \/ ~IsWordChar(t[i + n])

\* the pairs (position of a query token, position of one of its synonyms)
SynonymPairs(query) ==
    {x \in (1..Len(tokenize(query))) \X (1..6) :
        /\ tokenize(query)[x[1]] \in SynonymKeys
        /\ x[2] <= Len(SYNONYMS[tokenize(query)[x[1]]])}

SynonymAt(query, x) == SYNONYMS[tokenize(query)[x[1]]][x[2]]

\* what enhanced_keyword_score adds to the term-frequency and phrase parts
SynonymPart ==
    probe.score - BaseScore(probe.query, probe.title, probe.summary)
                - PhraseBonus(probe.query, probe.title, probe.summary)

\* C12: the synonym part is the sum, over every query token that is a key
\* of the synonym table (a token the query repeats counting once per
\* occurrence) and every synonym listed for it, of 1.0 if the synonym occurs
\* as a whole word in the title, else 0.3 if it does in the summary, else 0;
\* the contributions add up without a cap.
C12_SynonymPartSums ==
    ProbeScored =>
        LET pairs     == SynonymPairs(probe.query)
            inTitle   == {x \in pairs :
                            OccursWhole(probe.title, SynonymAt(probe.query, x))}
            inSummary == {x \in pairs \ inTitle :
                            OccursWhole(probe.summary, SynonymAt(probe.query, x))}
        IN SynonymPart = 10 * Cardinality(inTitle) + 3 * Cardinality(inSummary)

\* two query tokens with synonyms in the title, one synonym in both the
\* title and the summary, one in the summary alone: 5 * 1.0 + 0.3
C12_Witness ==
    /\ ProbeScored
    /\ probe.query = Q_cargo_station
    /\ probe.title = T_dragon
    /\ probe.summary = S_arrives
    /\ SynonymPart = 53

\* C13: enhanced_keyword_score is never negative, and it is 0 for every
\* title and summary when the query has no token (the empty string, only
\* stopwords, only non-alphanumeric characters).
C13_NonNegativeZeroOnEmptyQuery ==
    ProbeScored =>
        /\ probe.score >= 0
        /\ TokenSet(probe.query) = {} => probe.score = 0

\* a query of punctuation only scored against a non-empty document
C13_Witness ==
    /\ ProbeScored
    /\ probe.query = Q_punct
    /\ probe.title = T_phrase
    /\ probe.summary = S_arrives
    /\ probe.score = 0

(***************************************************************************)
(* Properties of the recency scorer                                        *)
(***************************************************************************)
ProbeDated == probe.fn = "dated"

\* the instant a timestamp stands for; an undated one stands for the clock
\* reading `tick` microseconds after the call, with the year set to 2000
DocInstant(ts, now, tick) ==
    IF ts.kind # "iso"
    THEN InstantLater(Instant([now EXCEPT !.y = 2000]), tick)
    ELSE InstantShift(Instant(ts), 0 - ts.off)

\* the instant from which the age of a document counts: its own, or that of
\* the call when its own is later
AgedFrom(ts, now, tick) ==
    IF InstantLeq(Instant(now), DocInstant(ts, now, tick))
    THEN Instant(now)
    ELSE DocInstant(ts, now, tick)

\* the whole hours of the age of a document
DocAge(ts, now, tick) == Elapsed(Instant(now), AgedFrom(ts, now, tick))[1]

\* the age of probe.a is below that of probe.b
AgeOfALess ==
    ~InstantLeq(AgedFrom(probe.a, probe.now, probe.ta),
                AgedFrom(probe.b, probe.now, probe.tb))

\* the age of probe.b is below that of probe.a
AgeOfBLess ==
    ~InstantLeq(AgedFrom(probe.b, probe.now, probe.tb),
                AgedFrom(probe.a, probe.now, probe.ta))

\* r1 < r2 for two recencies
RecencyLess(r1, r2) == ~RecencyLeq(r2, r1)

\* the recency is exactly 1.0
RecencyIsOne(r) == r[1] = 1000 /\ r[3] = F_ONE

\* the recency is exactly 0.0
RecencyIsZero(r) == r[1] = 0 /\ r[3] = F_ZERO

\* the parts of C14 that do not compare two ages: 1.0 at age 0, 1.0 for a
\* timestamp at or after `now`, a value in [0,1]
RecencyAtZeroAndRange ==
    /\ AgedFrom(probe.a, probe.now, probe.ta) = Instant(probe.now)
          => RecencyIsOne(probe.ra)
    /\ InstantLeq(Instant(probe.now), DocInstant(probe.a, probe.now, probe.ta))
          => RecencyIsOne(probe.ra)
    /\ FLeq(F_ZERO, probe.ra[3])
    /\ FLeq(probe.ra[3], F_ONE)
    /\ probe.ra[1] \in 0..1000

\* C14 as claimed: recency_boost is strictly decreasing in the age for ages
\* >= 0, is 1.0 at age 0 and for every timestamp at or after `now`, and
\* lies in [0,1].
C14_StrictlyDecreasing ==
    ProbeDated =>
        /\ RecencyAtZeroAndRange
        /\ AgeOfALess => RecencyLess(probe.rb, probe.ra)

\* C14 amended: recency_boost never increases with the age; it is strictly
\* decreasing, down to ages a microsecond apart, among ages below
\* EXP_SUBNORMAL_HOURS (about 27.2 years); from there on the value is a
\* subnormal binary64 number that loses precision as the age grows, and two
\* different ages may get the same one (TS_tie_late and TS_tie_early do);
\* it is 0.0 for every age from EXP_UNDERFLOW_HOURS (about 28.6 years) on;
\* it is 1.0 at age 0 and for every timestamp at or after `now`, and lies
\* in [0,1].
C14_DecreasingUntilUnderflow ==
    ProbeDated =>
        /\ RecencyAtZeroAndRange
        /\ ~AgeOfBLess => RecencyLeq(probe.rb, probe.ra)
        /\ (/\ AgeOfALess
            /\ DocAge(probe.a, probe.now, probe.ta) < EXP_SUBNORMAL_HOURS)
              => RecencyLess(probe.rb, probe.ra)
        /\ DocAge(probe.a, probe.now, probe.ta) >= EXP_UNDERFLOW_HOURS
              => RecencyIsZero(probe.ra)

\* the ages two and one microseconds below EXP_SUBNORMAL_HOURS get
\* different values, the greater age the smaller one
C14_Witness ==
    /\ ProbeDated
    /\ probe.a = TS_subnormal_2us
    /\ probe.b = TS_subnormal_1us
    /\ DocAge(probe.a, probe.now, probe.ta) = EXP_SUBNORMAL_HOURS - 1
    /\ DocAge(probe.b, probe.now, probe.tb) = EXP_SUBNORMAL_HOURS - 1
    /\ AgeOfALess
    /\ RecencyLess(probe.rb, probe.ra)

(***************************************************************************)
(* Properties of two searches in a row                                     *)
(***************************************************************************)
AfterEarlier == probe.fn = "earlier"

\* C16: hybrid_search keeps no state between calls and changes neither
\* table: what a search B leaves after a search A is what B leaves when
\* nothing ran before it, given the same tables, retriever output and
\* clock readings.
C16_NoStateBetweenCalls ==
    /\ [](AfterEarlier =>
            call = SearchOutcome(<<>>, call.query, call.k, call.now, call.hits,
                                 call.ticks))
    /\ [][meta' = meta /\ raw_items' = raw_items]_vars

\* B follows an A with another query and other raw semantic scores
C16_Witness ==
    /\ AfterEarlier
    /\ Returned
    /\ probe.call.query # call.query
    /\ Len(probe.call.candidates) = MaxMeta
    /\ Len(call.candidates) = MaxMeta
    /\ probe.call.candidates[MaxMeta].semantic_raw
          > call.candidates[MaxMeta].semantic_raw
    /\ Len(call.results) = MaxMeta

(***************************************************************************)
(* Properties of the pipeline                                              *)
(***************************************************************************)
\* the feed entry with the link u carries a date that parses, or none
DatedLink(u) ==
    \E j \in 1..Len(feed.parsed) : \E i \in 1..Len(feed.parsed[j]) :
        feed.parsed[j][i].link = u /\ feed.parsed[j][i].published.kind = "iso"

UndatedLink(u) ==
    \E j \in 1..Len(feed.parsed) : \E i \in 1..Len(feed.parsed[j]) :
        feed.parsed[j][i].link = u /\ feed.parsed[j][i].published.kind # "iso"

\* C18: through ingest, build_embeddings and hybrid_search, a feed entry
\* without a parseable publication date never has a recency above that of
\* a dated entry of the same search: it is the stalest, its recency does
\* not come from the time of ingestion.
C18_UndatedEntryIsStalest ==
    (feed.stage = "indexed" /\ Returned) =>
        \A i, j \in 1..Len(call.candidates) :
            (/\ UndatedLink(call.candidates[i].url)
             /\ DatedLink(call.candidates[j].url))
            => RecencyLeq(call.candidates[i].recency, call.candidates[j].recency)

(***************************************************************************)
(* Properties of the API                                                   *)
(***************************************************************************)
Answered == api.phase = "up" /\ api.last.code # 0

\* C15: after startup, a /search during which hybrid_search raised is
\* answered 500; when the search function failed to load at startup every
\* /search is answered 503; a 200 carries the number of results
\* hybrid_search returned, so count 0 is answered only when it returned the
\* empty list.
C15_FailuresAreNotEmptyResults ==
    /\ api.phase = "up" => (api.func = "None" <=> ~api.import_ok)
    /\ Answered =>
          /\ ~api.import_ok => api.last.code = 503
          /\ api.last.raised => api.last.code = 500
          /\ api.last.code \in {200, 500, 503}
          /\ api.last.code = 200 =>
                /\ api.import_ok
                /\ api.last.called
                /\ ~api.last.raised
                /\ api.last.count = api.last.returned

\* a request answered 500 because the search raised
C15_Witness ==
    /\ Answered
    /\ api.import_ok
    /\ api.last.raised
    /\ api.last.code = 500

====
